---- MODULE Spec2Model ----
(***************************************************************************)
(* A model of pymeteosource's response-modelling layer (data.py): the      *)
(* Timeseries container (MultipleTimesData), the Snapshot loader           *)
(* (BaseData.load_data / SingleTimeData), the Alerts container             *)
(* (AlertsData), the Forecast and TimeMachine aggregates, and the          *)
(* Meteosource interface of api.py that builds them from requests.         *)
(*                                                                         *)
(* Time is counted in seconds since 2021-10-30T00:00:00 UTC.  A string is  *)
(* a sequence of tokens; a Python datetime is a record that says whether   *)
(* it is timezone-aware, naive or a plain date.                            *)
(***************************************************************************)
EXTENDS Integers, Sequences, FiniteSets, TLC

VARIABLES ts, last, alerts, forecast, api

vars == <<ts, last, alerts, forecast, api>>

-----------------------------------------------------------------------------
(* Bounds of the model                                                     *)

\* longest 'data' list of a payload handed to MultipleTimesData
MaxPayload == 4
\* longest 'data' list of the operand of an append
MaxOperand == 2
\* longest Timeseries an append may build
MaxLen == 4
\* longest list of alerts in a payload
MaxAlerts == 2
\* longest list of dates handed to get_time_machine
MaxDates == 2
\* most hours in the response to one time_machine request
MaxHours == 2

-----------------------------------------------------------------------------
(* Units                                                                   *)

Hour == 60 * 60
Day == 24 * Hour

-----------------------------------------------------------------------------
(* Strings.  "2021-10-31T01:00:00" is <<date 1, T, time 3600>>: the date   *)
(* token holds the day number, the time token the second of the day.       *)

Tok(c, n) == [c |-> c, n |-> n]

\* types/time_formats: F1 = '%Y-%m-%dT%H:%M:%S', F2 = '%Y-%m-%d'
F1 == "F1"
F2 == "F2"

\* datetime.strptime(s, form): the naive wall-clock second, or a ValueError
StrptimeOk(s, form) ==
    IF form = F1
    THEN /\ Len(s) = 3
         /\ s[1].c = "date"
         /\ s[2].c = "T"
         /\ s[3].c = "time" /\ s[3].n \in 0..(Day - 1)
    ELSE /\ Len(s) = 1
         /\ s[1].c = "date"

Strptime(s, form) ==
    IF form = F1 THEN s[1].n * Day + s[3].n ELSE s[1].n * Day

-----------------------------------------------------------------------------
(* Python's datetime values.  k = "aware": t is the UTC second and off the *)
(* utcoffset; k = "naive": t is the wall-clock second; k = "date": t is    *)
(* the day number.                                                         *)

Aware(utc, off) == [k |-> "aware", t |-> utc, off |-> off]
Naive(wall) == [k |-> "naive", t |-> wall, off |-> 0]
Date(day) == [k |-> "date", t |-> day, off |-> 0]

\* the wall-clock second a datetime shows
Wall(d) ==
    CASE d.k = "aware" -> d.t + d.off
      [] d.k = "naive" -> d.t
      [] OTHER -> d.t * Day

\* d.strftime(form)
Strftime(d, form) ==
    IF form = F1
    THEN <<Tok("date", Wall(d) \div Day), Tok("T", 0), Tok("time", Wall(d) % Day)>>
    ELSE <<Tok("date", Wall(d) \div Day)>>

\* x == y on datetimes: aware ones compare by instant, an aware one never
\* equals a naive one, a datetime never equals a plain date
PyEq(x, y) == x.k = y.k /\ x.t = y.t

-----------------------------------------------------------------------------
(* pytz.  A zone is its list of UTC transition times with the offset and   *)
(* the DST flag in force from each of them on.                             *)

Info(at, off, dst) == [at |-> at, off |-> off, dst |-> dst]

ZoneNames == {"UTC", "Europe/Prague", "Asia/Tehran"}

Zone(name) ==
    CASE name = "UTC" -> <<Info(0, 0, FALSE)>>
      [] name = "Asia/Tehran" -> <<Info(0, 3 * Hour + 30 * 60, FALSE)>>
      [] name = "Europe/Prague" ->
            << Info(Hour - 216 * Day, 2 * Hour, TRUE),    \* 2021-03-28T01:00Z
               Info(Day + Hour, Hour, FALSE),             \* 2021-10-31T01:00Z
               Info(148 * Day + Hour, 2 * Hour, TRUE) >>  \* 2022-03-27T01:00Z

\* bisect_right(_utc_transition_times, t) - 1, at least 0 (0-based there)
TransitionIdx(name, t) ==
    LET z == Zone(name)
        n == Cardinality({i \in 1..Len(z) : z[i].at <= t})
    IN  IF n = 0 THEN 1 ELSE n

InfoAt(name, t) == Zone(name)[TransitionIdx(name, t)]

\* tz.fromutc / dt.astimezone(tz): the same instant at the zone's offset
FromUtc(name, utc) == Aware(utc, InfoAt(name, utc).off)

Astimezone(d, name) == FromUtc(name, d.t)

\* the candidates localize() tries: the zone's rule a day before and a day
\* after the wall-clock time, kept when that rule shows this wall-clock time
Possible(name, wall) ==
    {i \in {InfoAt(name, wall - Day), InfoAt(name, wall + Day)} :
        InfoAt(name, wall - i.off).off = i.off}

\* tz.localize(naive, is_dst=False)
RECURSIVE Localize(_, _)
Localize(name, wall) ==
    LET p == Possible(name, wall)
    IN  IF Cardinality(p) = 1
        THEN LET i == CHOOSE i \in p : TRUE IN Aware(wall - i.off, i.off)
        ELSE IF p = {}
        THEN \* a time that never happened: localize six hours earlier
             LET e == Localize(name, wall - 6 * Hour)
             IN  Aware(e.t + 6 * Hour, e.off)
        ELSE \* an ambiguous time: keep the rule whose DST flag is False
             LET i == CHOOSE i \in p : ~i.dst IN Aware(wall - i.off, i.off)

-----------------------------------------------------------------------------
(* JSON values of a payload and the values load_data stores.  j is the     *)
(* kind: "null", "num", "str", "list", "dict" in a payload (and "dt" for a *)
(* datetime or date object the caller put there); load_data stores "dt"    *)
(* for a parsed date and "snap" for a nested SingleTimeData.               *)

JNull == [j |-> "null", v |-> 0]
JNum(n) == [j |-> "num", v |-> n]
JStr(s) == [j |-> "str", v |-> s]
JList(q) == [j |-> "list", v |-> q]
JDict(f) == [j |-> "dict", v |-> f]
JDt(d) == [j |-> "dt", v |-> d]
Snap(f) == [j |-> "snap", v |-> f]

\* the keys load_data localizes from UTC
TemporalKeys == {"date", "rise", "set", "onset", "expires"}

\* what one scalar item of load_data raises (lines 71-82)
ScalarErrors(key, value) ==
    IF value.j = "null" THEN {}
    ELSE (IF key \in TemporalKeys
          THEN IF value.j # "str" THEN {"TypeError"}
               ELSE IF ~StrptimeOk(value.v, F1) THEN {"ValueError"} ELSE {}
          ELSE {})
         \cup
         (IF key = "day" /\ value.j # "dt"
          THEN IF value.j # "str" THEN {"TypeError"}
               ELSE IF ~StrptimeOk(value.v, F2) THEN {"ValueError"} ELSE {}
          ELSE {})

\* load_data as it would be if the wire string were localized in the target
\* zone instead of being read as UTC
LoadScalarLocal(key, value, tz) ==
    IF value.j = "null" THEN value
    ELSE IF key \in TemporalKeys
    THEN JDt(Localize(tz, Strptime(value.v, F1)))
    ELSE IF key = "day" /\ value.j # "dt"
    THEN JDt(Naive(Strptime(value.v, F2)))
    ELSE value

\* the value load_data stores for one scalar item (lines 71-85)
LoadScalar(key, value, tz) ==
    IF value.j = "null" THEN value
    ELSE IF key \in TemporalKeys
    THEN JDt(Astimezone(Aware(Strptime(value.v, F1), 0), tz))
    ELSE IF key = "day" /\ value.j # "dt"
    THEN JDt(Naive(Strptime(value.v, F2)))
    ELSE value

\* load_data as it would be if it did not descend into nested dicts
LoadDataFlat(data, tz) ==
    [k \in DOMAIN data |->
        IF data[k].j = "dict" THEN Snap(data[k].v)
        ELSE LoadScalar(k, data[k], tz)]

\* BaseData.load_data on a dict: the errors it can raise, and the member
\* variables it sets when it raises none
RECURSIVE LoadErrors(_), LoadData(_, _)
LoadErrors(data) ==
    UNION {IF data[k].j = "dict" THEN LoadErrors(data[k].v)
           ELSE ScalarErrors(k, data[k]) : k \in DOMAIN data}

LoadData(data, tz) ==
    [k \in DOMAIN data |->
        IF data[k].j = "dict" THEN Snap(LoadData(data[k].v, tz))
        ELSE LoadScalar(k, data[k], tz)]

\* an operation's outcome: a value, or one of the errors it can raise
Ok(v) == [kind |-> "ok", errs |-> {}, val |-> v]
Raise(errs) == [kind |-> "raise", errs |-> errs, val |-> 0]

\* SingleTimeData(data, timezone): None keeps an instance with no member
SingleTimeData(data, tz) ==
    IF data.j = "null" THEN Ok(Snap(<<>>))
    ELSE IF LoadErrors(data.v) # {} THEN Raise(LoadErrors(data.v))
    ELSE Ok(Snap(LoadData(data.v, tz)))

-----------------------------------------------------------------------------
(* MultipleTimesData                                                       *)

\* an instance: populated says whether data, dates_str, dates_dt and
\* data_type were ever set (the constructor returns early on None)
Timeseries(tz, populated, data_type, data, dates_str, dates_dt, summary) ==
    [cls |-> "MultipleTimesData", tz |-> tz, populated |-> populated,
     data_type |-> data_type, data |-> data, dates_str |-> dates_str,
     dates_dt |-> dates_dt, summary |-> summary]

NoObject ==
    [cls |-> "none", tz |-> "UTC", populated |-> FALSE, data_type |-> "",
     data |-> <<>>, dates_str |-> <<>>, dates_dt |-> <<>>, summary |-> JNull]

DateCol(data_type) == IF data_type \in {"daily", "statistics"} THEN "day" ELSE "date"
Form(data_type) == IF data_type \in {"daily", "statistics"} THEN F2 ELSE F1

\* x[date_col].strftime(form) works on a member that is a date or datetime
HasKey(x, col) == col \in DOMAIN x /\ x[col].j = "dt"

\* the constructor as it would be without the early return on None
MultipleTimesDataNoNone(data, data_type, tz) ==
    IF data.j = "null" THEN Raise({"TypeError"})
    ELSE
      LET items == data.v.data.v
          errs == UNION {LoadErrors(items[i].v) : i \in 1..Len(items)}
          loaded == [i \in 1..Len(items) |-> LoadData(items[i].v, tz)]
          col == DateCol(data_type)
      IN  IF errs # {} THEN Raise(errs)
          ELSE IF \E i \in 1..Len(items) : ~HasKey(loaded[i], col)
          THEN Raise({"AttributeError"})
          ELSE Ok(Timeseries(tz, TRUE, data_type,
                    [i \in 1..Len(items) |-> Snap(loaded[i])],
                    [i \in 1..Len(items) |-> Strftime(loaded[i][col].v, Form(data_type))],
                    [i \in 1..Len(items) |-> loaded[i][col].v],
                    IF "summary" \in DOMAIN data.v THEN data.v.summary ELSE JNull))

MultipleTimesData(data, data_type, tz) ==
    IF data.j = "null"
    THEN Ok(Timeseries(tz, FALSE, "", <<>>, <<>>, <<>>, JNull))
    ELSE
      LET items == data.v.data.v
          errs == UNION {LoadErrors(items[i].v) : i \in 1..Len(items)}
          loaded == [i \in 1..Len(items) |-> LoadData(items[i].v, tz)]
          col == DateCol(data_type)
      IN  IF errs # {} THEN Raise(errs)
          ELSE IF \E i \in 1..Len(items) : ~HasKey(loaded[i], col)
          THEN Raise({"AttributeError"})
          ELSE Ok(Timeseries(tz, TRUE, data_type,
                    [i \in 1..Len(items) |-> Snap(loaded[i])],
                    [i \in 1..Len(items) |-> Strftime(loaded[i][col].v, Form(data_type))],
                    [i \in 1..Len(items) |-> loaded[i][col].v],
                    IF "summary" \in DOMAIN data.v THEN data.v.summary ELSE JNull))

\* append as it would be if dates_dt were left out of the concatenation
TsAppendNoDt(self, other) ==
    IF other.cls # "MultipleTimesData" THEN [res |-> Raise({"InvalidClassType"}), self |-> self]
    ELSE IF ~self.populated \/ ~other.populated
    THEN [res |-> Raise({"AttributeError"}), self |-> self]
    ELSE [res |-> Ok(0),
          self |-> [self EXCEPT !.data = self.data \o other.data,
                                !.dates_str = self.dates_str \o other.dates_str]]

\* append as it would be if it skipped the entries whose date is already there
TsAppendDedup(self, other) ==
    IF other.cls # "MultipleTimesData" THEN [res |-> Raise({"InvalidClassType"}), self |-> self]
    ELSE IF ~self.populated \/ ~other.populated
    THEN [res |-> Raise({"AttributeError"}), self |-> self]
    ELSE LET keep == {j \in 1..Len(other.data) :
                        \A i \in 1..Len(self.data) : self.dates_str[i] # other.dates_str[j]}
             Sel(q) == SelectSeq([j \in 1..Len(q) |-> <<j, q[j]>>], LAMBDA e : e[1] \in keep)
             Vals(q) == [j \in 1..Len(Sel(q)) |-> Sel(q)[j][2]]
         IN  [res |-> Ok(0),
              self |-> [self EXCEPT !.data = self.data \o Vals(other.data),
                                    !.dates_str = self.dates_str \o Vals(other.dates_str),
                                    !.dates_dt = self.dates_dt \o Vals(other.dates_dt)]]

\* append as it would be if it took any object that holds the three lists
TsAppendDuck(self, other) ==
    IF ~self.populated \/ ~other.populated
    THEN [res |-> Raise({"AttributeError"}), self |-> self]
    ELSE [res |-> Ok(0),
          self |-> [self EXCEPT !.data = self.data \o other.data,
                                !.dates_str = self.dates_str \o other.dates_str,
                                !.dates_dt = self.dates_dt \o other.dates_dt]]

\* MultipleTimesData.append(other): the outcome and the receiver afterwards
TsAppend(self, other) ==
    IF other.cls # "MultipleTimesData" THEN [res |-> Raise({"InvalidClassType"}), self |-> self]
    ELSE IF ~self.populated \/ ~other.populated
    THEN [res |-> Raise({"AttributeError"}), self |-> self]
    ELSE [res |-> Ok(0),
          self |-> [self EXCEPT !.data = self.data \o other.data,
                                !.dates_str = self.dates_str \o other.dates_str,
                                !.dates_dt = self.dates_dt \o other.dates_dt]]

\* len(self)
PyLen(self) == IF self.populated THEN Len(self.data) ELSE 0

\* a lookup that would return the last equal position
LastStr(q, s) ==
    IF \E i \in 1..Len(q) : q[i] = s
    THEN CHOOSE i \in 1..Len(q) : q[i] = s /\ \A h \in (i + 1)..Len(q) : q[h] # s
    ELSE 0

\* list.index(x) / x in list, with Python's ==: the first equal position, 0 if none
FirstStr(q, s) ==
    IF \E i \in 1..Len(q) : q[i] = s
    THEN CHOOSE i \in 1..Len(q) : q[i] = s /\ \A h \in 1..(i - 1) : q[h] # s
    ELSE 0

FirstDt(q, d) ==
    IF \E i \in 1..Len(q) : PyEq(q[i], d)
    THEN CHOOSE i \in 1..Len(q) : PyEq(q[i], d) /\ \A h \in 1..(i - 1) : ~PyEq(q[h], d)
    ELSE 0

\* a key of the [] operator: ty is "int", "str", "datetime" or another type
Key(ty, v) == [ty |-> ty, v |-> v]

\* __getitem__ as it would be if a naive datetime were read as UTC
GetItemNaiveUtc(self, attr) ==
    IF PyLen(self) = 0 THEN Raise({"EmptyInstanceError"})
    ELSE IF attr.ty = "int"
    THEN LET n == Len(self.data)
             p == IF attr.v < 0 THEN attr.v + n + 1 ELSE attr.v + 1
         IN  IF p \in 1..n THEN Ok(p) ELSE Raise({"IndexError"})
    ELSE IF attr.ty = "str"
    THEN IF FirstStr(self.dates_str, attr.v) = 0 THEN Raise({"InvalidStrIndexError"})
         ELSE Ok(FirstStr(self.dates_str, attr.v))
    ELSE IF attr.ty = "datetime"
    THEN LET d == IF attr.v.k = "naive" THEN Aware(attr.v.t, 0)
                  ELSE Astimezone(attr.v, self.tz)
         IN  IF FirstDt(self.dates_dt, d) = 0 THEN Raise({"InvalidDatetimeIndexError"})
             ELSE Ok(FirstDt(self.dates_dt, d))
    ELSE Raise({"InvalidIndexTypeError"})

\* __getitem__ as it would be if the type of the key were looked at before
\* the length
GetItemTypeFirst(self, attr) ==
    IF attr.ty \notin {"int", "str", "datetime"} THEN Raise({"InvalidIndexTypeError"})
    ELSE IF PyLen(self) = 0 THEN Raise({"EmptyInstanceError"})
    ELSE IF attr.ty = "int"
    THEN LET n == Len(self.data)
             p == IF attr.v < 0 THEN attr.v + n + 1 ELSE attr.v + 1
         IN  IF p \in 1..n THEN Ok(p) ELSE Raise({"IndexError"})
    ELSE IF attr.ty = "str"
    THEN IF FirstStr(self.dates_str, attr.v) = 0 THEN Raise({"InvalidStrIndexError"})
         ELSE Ok(FirstStr(self.dates_str, attr.v))
    ELSE LET d == IF attr.v.k = "naive" THEN Localize(self.tz, attr.v.t)
                  ELSE Astimezone(attr.v, self.tz)
         IN  IF FirstDt(self.dates_dt, d) = 0 THEN Raise({"InvalidDatetimeIndexError"})
             ELSE Ok(FirstDt(self.dates_dt, d))

\* __getitem__ as it would be if integers were not counted from the end
GetItemNoNegative(self, attr) ==
    IF PyLen(self) = 0 THEN Raise({"EmptyInstanceError"})
    ELSE IF attr.ty = "int"
    THEN IF attr.v + 1 \in 1..Len(self.data) THEN Ok(attr.v + 1) ELSE Raise({"IndexError"})
    ELSE IF attr.ty = "str"
    THEN IF FirstStr(self.dates_str, attr.v) = 0 THEN Raise({"InvalidStrIndexError"})
         ELSE Ok(FirstStr(self.dates_str, attr.v))
    ELSE IF attr.ty = "datetime"
    THEN LET d == IF attr.v.k = "naive" THEN Localize(self.tz, attr.v.t)
                  ELSE Astimezone(attr.v, self.tz)
         IN  IF FirstDt(self.dates_dt, d) = 0 THEN Raise({"InvalidDatetimeIndexError"})
             ELSE Ok(FirstDt(self.dates_dt, d))
    ELSE Raise({"InvalidIndexTypeError"})

\* __getitem__ as it would be if a naive datetime that names a repeated hour
\* were taken for its first, daylight-saving occurrence
GetItemDstFirst(self, attr) ==
    IF PyLen(self) = 0 THEN Raise({"EmptyInstanceError"})
    ELSE IF attr.ty = "int"
    THEN LET n == Len(self.data)
             p == IF attr.v < 0 THEN attr.v + n + 1 ELSE attr.v + 1
         IN  IF p \in 1..n THEN Ok(p) ELSE Raise({"IndexError"})
    ELSE IF attr.ty = "str"
    THEN IF FirstStr(self.dates_str, attr.v) = 0 THEN Raise({"InvalidStrIndexError"})
         ELSE Ok(FirstStr(self.dates_str, attr.v))
    ELSE IF attr.ty = "datetime"
    THEN LET two == Possible(self.tz, attr.v.t)
             d == IF attr.v.k # "naive" THEN Astimezone(attr.v, self.tz)
                  ELSE IF Cardinality(two) = 2
                  THEN LET i == CHOOSE i \in two : i.dst
                       IN  Aware(attr.v.t - i.off, i.off)
                  ELSE Localize(self.tz, attr.v.t)
         IN  IF FirstDt(self.dates_dt, d) = 0 THEN Raise({"InvalidDatetimeIndexError"})
             ELSE Ok(FirstDt(self.dates_dt, d))
    ELSE Raise({"InvalidIndexTypeError"})

\* MultipleTimesData.__getitem__(attr): the position in data of the Snapshot
\* it returns
GetItem(self, attr) ==
    IF PyLen(self) = 0 THEN Raise({"EmptyInstanceError"})
    ELSE IF attr.ty = "int"
    THEN LET n == Len(self.data)
             p == IF attr.v < 0 THEN attr.v + n + 1 ELSE attr.v + 1
         IN  IF p \in 1..n THEN Ok(p) ELSE Raise({"IndexError"})
    ELSE IF attr.ty = "str"
    THEN IF FirstStr(self.dates_str, attr.v) = 0 THEN Raise({"InvalidStrIndexError"})
         ELSE Ok(FirstStr(self.dates_str, attr.v))
    ELSE IF attr.ty = "datetime"
    THEN LET d == IF attr.v.k = "naive" THEN Localize(self.tz, attr.v.t)
                  ELSE Astimezone(attr.v, self.tz)
         IN  IF FirstDt(self.dates_dt, d) = 0 THEN Raise({"InvalidDatetimeIndexError"})
             ELSE Ok(FirstDt(self.dates_dt, d))
    ELSE Raise({"InvalidIndexTypeError"})

-----------------------------------------------------------------------------
(* AlertsData                                                              *)

\* an instance: populated says whether data was ever set
Alerts(tz, populated, data) ==
    [cls |-> "AlertsData", tz |-> tz, populated |-> populated, data |-> data]

NoAlerts == [cls |-> "none", tz |-> "UTC", populated |-> FALSE, data |-> <<>>]

AlertsData(data, tz) ==
    IF data.j = "null" THEN Ok(Alerts(tz, FALSE, <<>>))
    ELSE
      LET items == data.v.data.v
          errs == UNION {LoadErrors(items[i].v) : i \in 1..Len(items)}
      IN  IF errs # {} THEN Raise(errs)
          ELSE Ok(Alerts(tz, TRUE,
                    [i \in 1..Len(items) |-> Snap(LoadData(items[i].v, tz))]))

\* x <= y on two aware datetimes: by instant
PyLe(x, y) == x.t <= y.t

\* what 'x.onset <= dt <= x.expires' raises: a missing member is an
\* AttributeError, None a TypeError; expires is read only once onset <= dt
ActiveErrors(x, dt) ==
    IF "onset" \notin DOMAIN x THEN {"AttributeError"}
    ELSE IF x.onset.j # "dt" THEN {"TypeError"}
    ELSE IF ~PyLe(x.onset.v, dt) THEN {}
    ELSE IF "expires" \notin DOMAIN x THEN {"AttributeError"}
    ELSE IF x.expires.j # "dt" THEN {"TypeError"}
    ELSE {}

Active(x, dt) == PyLe(x.onset.v, dt) /\ PyLe(dt, x.expires.v)

\* the positions of q that are in the set keep, in the order of q
RECURSIVE Positions(_, _)
Positions(n, keep) ==
    IF n = 0 THEN <<>>
    ELSE IF n \in keep THEN Positions(n - 1, keep) \o <<n>>
    ELSE Positions(n - 1, keep)

\* the scan as it would be with an exclusive upper bound
ScanExclusive(self, dt) ==
    IF ~self.populated THEN Raise({"AttributeError"})
    ELSE LET n == Len(self.data)
             bad == {i \in 1..n : ActiveErrors(self.data[i].v, dt) # {}}
         IN  IF bad # {}
             THEN Raise(ActiveErrors(self.data[CHOOSE i \in bad : \A h \in bad : i <= h].v, dt))
             ELSE Ok(Positions(n, {i \in 1..n : /\ PyLe(self.data[i].v.onset.v, dt)
                                                /\ dt.t < self.data[i].v.expires.v.t}))

\* the list comprehension of line 219: the positions in data of the alerts
\* it returns; the first alert that raises ends it
Scan(self, dt) ==
    IF ~self.populated THEN Raise({"AttributeError"})
    ELSE LET n == Len(self.data)
             bad == {i \in 1..n : ActiveErrors(self.data[i].v, dt) # {}}
         IN  IF bad # {}
             THEN Raise(ActiveErrors(self.data[CHOOSE i \in bad : \A h \in bad : i <= h].v, dt))
             ELSE Ok(Positions(n, {i \in 1..n : Active(self.data[i].v, dt)}))

\* get_active_alerts as it would be if a string were read as UTC
GetActiveAlertsStrUtc(self, orig_dt, now) ==
    IF orig_dt.ty = "NoneType" THEN Scan(self, FromUtc(self.tz, now))
    ELSE IF orig_dt.ty = "str"
    THEN IF ~StrptimeOk(orig_dt.v, F1) THEN Raise({"InvalidDateFormat"})
         ELSE Scan(self, Aware(Strptime(orig_dt.v, F1), 0))
    ELSE IF orig_dt.ty = "datetime"
    THEN IF orig_dt.v.k = "naive" THEN Scan(self, Localize(self.tz, orig_dt.v.t))
         ELSE Scan(self, orig_dt.v)
    ELSE Raise({"InvalidClassType"})

\* AlertsData.get_active_alerts(orig_dt); now is the instant datetime.now
\* reads when orig_dt is None
GetActiveAlerts(self, orig_dt, now) ==
    IF orig_dt.ty = "NoneType" THEN Scan(self, FromUtc(self.tz, now))
    ELSE IF orig_dt.ty = "str"
    THEN IF ~StrptimeOk(orig_dt.v, F1) THEN Raise({"InvalidDateFormat"})
         ELSE Scan(self, Localize(self.tz, Strptime(orig_dt.v, F1)))
    ELSE IF orig_dt.ty = "datetime"
    THEN IF orig_dt.v.k = "naive" THEN Scan(self, Localize(self.tz, orig_dt.v.t))
         ELSE Scan(self, orig_dt.v)
    ELSE Raise({"InvalidClassType"})

\* self.data[i] of a Python list of n items: the position counted from 1,
\* or 0 where Python raises IndexError
ListPos(n, i) ==
    IF 0 <= i /\ i < n THEN i + 1
    ELSE IF 0 - n <= i /\ i < 0 THEN n + i + 1
    ELSE 0

\* AlertsData.__getitem__(attr): the type of the key first, then
\* len(self.data), which reads the data member itself
AlertsGetItem(self, attr) ==
    IF attr.ty # "int" THEN Raise({"InvalidAlertIndexTypeError"})
    ELSE IF ~self.populated THEN Raise({"AttributeError"})
    ELSE IF Len(self.data) = 0 THEN Raise({"EmptyInstanceError"})
    ELSE IF ListPos(Len(self.data), attr.v) = 0 THEN Raise({"IndexError"})
    ELSE Ok(self.data[ListPos(Len(self.data), attr.v)])

\* AlertsData.__len__: the AttributeError of a missing data member gives 0
AlertsLen(self) == IF self.populated THEN Len(self.data) ELSE 0

\* list(iter(alerts)): iter(self.data) reads the data member
AlertsIter(self) ==
    IF ~self.populated THEN Raise({"AttributeError"})
    ELSE Ok([i \in 1..Len(self.data) |-> i])

-----------------------------------------------------------------------------
(* Forecast                                                                *)

\* data.get(key, None)
Get(data, key) == IF key \in DOMAIN data THEN data[key] ELSE JNull

\* "51.5N" is <<num 51, N>>: float(s[:-1]), negated unless the last
\* character is the positive hemisphere
ParseCoord(s, positive) ==
    IF s[Len(s)].c = positive THEN s[1].n ELSE 0 - s[1].n

NoForecast ==
    [cls |-> "none", lat |-> 0, lon |-> 0, elevation |-> JNull, timezone |-> "UTC",
     units |-> JNull, current |-> Snap(<<>>),
     minutely |-> NoObject, hourly |-> NoObject, daily |-> NoObject,
     alerts |-> NoAlerts]

\* Forecast(data, tz): the sections are built in the order current, minutely,
\* hourly, daily, alerts, and the first that raises ends the construction
Forecast(data, tz) ==
    LET current == SingleTimeData(Get(data, "current"), tz)
        minutely == MultipleTimesData(Get(data, "minutely"), "minutely", tz)
        hourly == MultipleTimesData(Get(data, "hourly"), "hourly", tz)
        daily == MultipleTimesData(Get(data, "daily"), "daily", tz)
        al == AlertsData(Get(data, "alerts"), tz)
    IN  IF current.kind # "ok" THEN Raise(current.errs)
        ELSE IF minutely.kind # "ok" THEN Raise(minutely.errs)
        ELSE IF hourly.kind # "ok" THEN Raise(hourly.errs)
        ELSE IF daily.kind # "ok" THEN Raise(daily.errs)
        ELSE IF al.kind # "ok" THEN Raise(al.errs)
        ELSE Ok([cls |-> "Forecast",
                 lat |-> ParseCoord(data.lat.v, "N"),
                 lon |-> ParseCoord(data.lon.v, "E"),
                 elevation |-> data.elevation, timezone |-> tz, units |-> data.units,
                 current |-> current.val,
                 minutely |-> minutely.val, hourly |-> hourly.val, daily |-> daily.val,
                 alerts |-> al.val])

-----------------------------------------------------------------------------
(* TimeMachine                                                             *)

\* types/icons: the table from icon code to weather category
ICONS == [c \in 1..3 |-> [weather |-> JStr(<<Tok("weather", c)>>), weather_id |-> JNum(c)]]

\* ICONS.get(x.icon, 1)['weather']: get hands back the integer 1 for a code
\* the table lacks, and an integer has no ['weather']
IconErrors(x) ==
    IF "icon" \notin DOMAIN x THEN {"AttributeError"}
    ELSE IF x.icon.j = "num" /\ x.icon.v \in DOMAIN ICONS THEN {}
    ELSE {"TypeError"}

\* lines 523-525 for one item that raises nothing
WithWeather(x) ==
    [k \in DOMAIN x \cup {"weather", "weather_id"} |->
        IF k \in {"weather", "weather_id"} THEN ICONS[x.icon.v][k] ELSE x[k]]

NoTimeMachine ==
    [cls |-> "none", lat |-> 0, lon |-> 0, elevation |-> JNull, timezone |-> "UTC",
     units |-> JNull, data |-> NoObject, statistics |-> NoObject]

\* TimeMachine as it would be if the statistics were tagged with the display
\* timezone
TimeMachineDisplayTz(data, tz, day) ==
    LET archive == MultipleTimesData(JDict(data), "time_machine", tz)
    IN  IF archive.kind # "ok" THEN Raise(archive.errs)
        ELSE IF "statistics" \notin DOMAIN data THEN Raise({"KeyError"})
        ELSE
          LET statistics ==
                MultipleTimesData(
                    JDict([data |-> JList(<<JDict([statistics |-> data.statistics,
                                                    day |-> day])>>)]),
                    "statistics", tz)
              items == archive.val.data
              bad == {i \in 1..Len(items) : IconErrors(items[i].v) # {}}
          IN  IF statistics.kind # "ok" THEN Raise(statistics.errs)
              ELSE IF bad # {}
              THEN Raise(IconErrors(items[CHOOSE i \in bad : \A h \in bad : i <= h].v))
              ELSE Ok([cls |-> "TimeMachine",
                       lat |-> ParseCoord(data.lat.v, "N"),
                       lon |-> ParseCoord(data.lon.v, "E"),
                       elevation |-> data.elevation, timezone |-> tz,
                       units |-> data.units,
                       data |-> [archive.val EXCEPT !.data =
                                   [i \in 1..Len(items) |-> Snap(WithWeather(items[i].v))]],
                       statistics |-> statistics.val])

\* TimeMachine(data, tz, day): the archive Timeseries from the whole payload,
\* the statistics as a one-item Timeseries carrying the caller's day, then
\* the weather of every archive item
TimeMachine(data, tz, day) ==
    LET archive == MultipleTimesData(JDict(data), "time_machine", tz)
    IN  IF archive.kind # "ok" THEN Raise(archive.errs)
        ELSE IF "statistics" \notin DOMAIN data THEN Raise({"KeyError"})
        ELSE
          LET statistics ==
                MultipleTimesData(
                    JDict([data |-> JList(<<JDict([statistics |-> data.statistics,
                                                    day |-> day])>>)]),
                    "statistics", "UTC")
              items == archive.val.data
              bad == {i \in 1..Len(items) : IconErrors(items[i].v) # {}}
          IN  IF statistics.kind # "ok" THEN Raise(statistics.errs)
              ELSE IF bad # {}
              THEN Raise(IconErrors(items[CHOOSE i \in bad : \A h \in bad : i <= h].v))
              ELSE Ok([cls |-> "TimeMachine",
                       lat |-> ParseCoord(data.lat.v, "N"),
                       lon |-> ParseCoord(data.lon.v, "E"),
                       elevation |-> data.elevation, timezone |-> tz,
                       units |-> data.units,
                       data |-> [archive.val EXCEPT !.data =
                                   [i \in 1..Len(items) |-> Snap(WithWeather(items[i].v))]],
                       statistics |-> statistics.val])

\* append as it would be if the newer day were put in front
TmAppendFront(self, other) ==
    [res |-> Ok(0),
     self |-> [self EXCEPT
                 !.data = [self.data EXCEPT
                             !.data = other.data.data \o self.data.data,
                             !.dates_str = other.data.dates_str \o self.data.dates_str,
                             !.dates_dt = other.data.dates_dt \o self.data.dates_dt],
                 !.statistics = TsAppend(self.statistics, other.statistics).self]]

\* TimeMachine.append(other): data first, then statistics
TmAppend(self, other) ==
    LET d == TsAppend(self.data, other.data)
        st == TsAppend(self.statistics, other.statistics)
    IN  IF d.res.kind # "ok" THEN [res |-> d.res, self |-> self]
        ELSE IF st.res.kind # "ok"
        THEN [res |-> st.res, self |-> [self EXCEPT !.data = d.self]]
        ELSE [res |-> Ok(0),
              self |-> [self EXCEPT !.data = d.self, !.statistics = st.self]]

-----------------------------------------------------------------------------
(* Attribute access and keyed access                                       *)

\* the member variables of an object, by name
SnapshotMembers(x) == x.v

TimeseriesMembers(x) ==
    [n \in IF ~x.populated THEN {}
           ELSE {"data_type", "data", "dates_str", "dates_dt"}
                \cup (IF x.summary.j = "null" THEN {} ELSE {"summary"}) |-> x[n]]

AggregateMembers(x) == [n \in DOMAIN x \ {"cls"} |-> x[n]]

Members(x) ==
    IF "j" \in DOMAIN x THEN SnapshotMembers(x)
    ELSE IF x.cls = "MultipleTimesData" THEN TimeseriesMembers(x)
    ELSE AggregateMembers(x)

\* the string that is the name n
Name(n) == <<Tok(n, 0)>>

\* getattr(x, attr)
GetAttr(x, attr) ==
    IF attr.ty # "str" THEN Raise({"TypeError"})
    ELSE IF attr.v[1].c \in DOMAIN Members(x) THEN Ok(Members(x)[attr.v[1].c])
    ELSE Raise({"AttributeError"})

\* keyed access as it would be with a dict's KeyError for every key
KeyedKeyError(x, attr) == Raise({"KeyError"})

\* __getitem__ of BaseData, Forecast and TimeMachine: getattr(self, attr)
Keyed(x, attr) == GetAttr(x, attr)

-----------------------------------------------------------------------------
(* Meteosource (api.py).  A parameter that was not given is None (JNull);  *)
(* a date is given as a str, a datetime.date (JDt of a date) or a          *)
(* datetime.datetime (JDt of a naive or aware datetime).                   *)

\* pars.update(more)
Update(pars, more) ==
    [k \in DOMAIN pars \cup DOMAIN more |-> IF k \in DOMAIN more THEN more[k] ELSE pars[k]]

IsNone(x) == x.j = "null"

\* _build_location_pars as it would be if it took whatever it is given
BuildLocationParsAll(pars, place_id, lat, lon) ==
    IF IsNone(place_id)
    THEN IF IsNone(lat) \/ IsNone(lon) THEN Raise({"InvalidArgumentError"})
         ELSE Ok(Update(pars, [lat |-> lat, lon |-> lon]))
    ELSE Ok(Update(pars, [place_id |-> place_id, lat |-> lat, lon |-> lon]))

\* _build_location_pars(pars, place_id, lat, lon)
BuildLocationPars(pars, place_id, lat, lon) ==
    IF IsNone(place_id)
    THEN IF IsNone(lat) \/ IsNone(lon) THEN Raise({"InvalidArgumentError"})
         ELSE Ok(Update(pars, [lat |-> lat, lon |-> lon]))
    ELSE IF ~IsNone(lat) \/ ~IsNone(lon) THEN Raise({"InvalidArgumentError"})
         ELSE Ok(Update(pars, [place_id |-> place_id]))

\* type(d) is dt.date / type(d) is dt.datetime
IsDate(d) == d.j = "dt" /\ d.v.k = "date"
IsDatetime(d) == d.j = "dt" /\ d.v.k # "date"

\* d.date() of a datetime: the day its wall clock shows
DayOf(d) == Wall(d) \div Day

\* _str_to_date(date): the day number; strptime raises TypeError, which is
\* not caught, on a value that is no str
StrToDate(date) ==
    IF IsDate(date) THEN Ok(date.v.t)
    ELSE IF IsDatetime(date) THEN Ok(DayOf(date.v))
    ELSE IF date.j # "str" THEN Raise({"TypeError"})
    ELSE IF ~StrptimeOk(date.v, F2) THEN Raise({"InvalidDateFormat"})
    ELSE Ok(Strptime(date.v, F2) \div Day)

\* the range of _get_tm_dates: inclusive says whether a range of one day is
\* rejected, last_day how many days date_to adds to the difference
TmRange(date_from, date_to, inclusive, last_day) ==
    LET dt_from == StrToDate(date_from)
        dt_to == StrToDate(date_to)
    IN  IF dt_from.kind # "ok" THEN dt_from
        ELSE IF dt_to.kind # "ok" THEN dt_to
        ELSE IF dt_to.val < dt_from.val \/ (inclusive /\ dt_to.val = dt_from.val)
        THEN Raise({"InvalidDateRange"})
        ELSE Ok([x \in 1..(dt_to.val - dt_from.val + last_day) |->
                    JDt(Date(dt_from.val + x - 1))])

\* _get_tm_dates as it would be if date won over a range given with it
GetTmDatesDateWins(date, date_from, date_to) ==
    IF IsNone(date) /\ (IsNone(date_from) \/ IsNone(date_to))
    THEN Raise({"InvalidDateSpecification"})
    ELSE IF ~IsNone(date)
    THEN Ok(IF date.j = "list" THEN date.v ELSE <<date>>)
    ELSE TmRange(date_from, date_to, TRUE, 1)

\* _get_tm_dates as it would be if a range of one day were let through
GetTmDatesOneDay(date, date_from, date_to) ==
    IF IsNone(date) /\ (IsNone(date_from) \/ IsNone(date_to))
    THEN Raise({"InvalidDateSpecification"})
    ELSE IF ~IsNone(date) /\ (~IsNone(date_from) \/ ~IsNone(date_to))
    THEN Raise({"InvalidDateSpecification"})
    ELSE IF ~IsNone(date)
    THEN Ok(IF date.j = "list" THEN date.v ELSE <<date>>)
    ELSE TmRange(date_from, date_to, FALSE, 1)

\* _get_tm_dates as it would be if date_to were left out of the range
GetTmDatesOpenEnd(date, date_from, date_to) ==
    IF IsNone(date) /\ (IsNone(date_from) \/ IsNone(date_to))
    THEN Raise({"InvalidDateSpecification"})
    ELSE IF ~IsNone(date) /\ (~IsNone(date_from) \/ ~IsNone(date_to))
    THEN Raise({"InvalidDateSpecification"})
    ELSE IF ~IsNone(date)
    THEN Ok(IF date.j = "list" THEN date.v ELSE <<date>>)
    ELSE TmRange(date_from, date_to, TRUE, 0)

\* _get_tm_dates(date, date_from, date_to): the list of dates to fetch
GetTmDates(date, date_from, date_to) ==
    IF IsNone(date) /\ (IsNone(date_from) \/ IsNone(date_to))
    THEN Raise({"InvalidDateSpecification"})
    ELSE IF ~IsNone(date) /\ (~IsNone(date_from) \/ ~IsNone(date_to))
    THEN Raise({"InvalidDateSpecification"})
    ELSE IF ~IsNone(date)
    THEN Ok(IF date.j = "list" THEN date.v ELSE <<date>>)
    ELSE TmRange(date_from, date_to, TRUE, 1)

\* lines 215-225: pars['date'] for one date of the list
DatePar(d) ==
    IF IsDate(d) THEN Ok(JStr(Strftime(d.v, F2)))
    ELSE IF IsDatetime(d) THEN Ok(JStr(Strftime(Date(DayOf(d.v)), F2)))
    ELSE IF d.j = "str"
    THEN IF StrToDate(d).kind = "ok" THEN Ok(d) ELSE StrToDate(d)
    ELSE Raise({"InvalidDateFormat"})

\* execute_request as it would be if it let the transport's own error through
ExecuteRequestRaw(status, data) ==
    IF status # 200 THEN Raise({"HTTPError"}) ELSE Ok(data)

\* execute_request: any status but 200 is an InvalidRequestError
ExecuteRequest(status, data) ==
    IF status # 200 THEN Raise({"InvalidRequestError"}) ELSE Ok(data)

\* one request as the transport saw it, and the body of its response (None
\* where the status was not 200)
Request(endpoint, pars, status, data) ==
    [endpoint |-> endpoint, pars |-> pars, status |-> status,
     data |-> IF status = 200 THEN data ELSE JNull]

\* a call of the interface: its arguments, the requests made so far and,
\* for get_time_machine, the dates, the index of the next one, and tm
Api(pc, args, dates, k, tz, pars, log, tm) ==
    [pc |-> pc, args |-> args, dates |-> dates, k |-> k, tz |-> tz, pars |-> pars,
     log |-> log, tm |-> tm]

NoApi == Api("idle", <<>>, <<>>, 1, "UTC", <<>>, <<>>, NoTimeMachine)

-----------------------------------------------------------------------------
(* SingleTimeData.to_dict.  A flattened key is the string Python builds;    *)
(* the result is a dict, a function from its keys to the values.            *)

\* the names the Snapshots of the model have, in the order of sorted
\* strings, the order in which dir() lists them ('_' comes before the small
\* letters, and a name before every name it begins)
DirOrder ==
    <<"_id", "all_day", "angle", "astro", "date", "day", "moon", "phase",
      "precipitation", "rise", "set", "summary", "sun", "temperature", "wind",
      "wind_angle">>

\* x.startswith("_"), for the names of DirOrder
StartsWithUnderscore(x) == x \in {"_id"}

\* get_members(): the names of dir(self) that are not callable and do not
\* start with '_'.  The values load_data sets are never callable; the
\* methods and the _timezone of the instance are left out this way.
GetMembers(x) ==
    SelectSeq(DirOrder, LAMBDA n : n \in DOMAIN x.v /\ ~StartsWithUnderscore(n))

\* to_dict(prefix) after the first n members of the loop: res.update with
\* the flattened nested Snapshot, or res[prefix + key] = val
RECURSIVE ToDictLoop(_, _, _)
ToDictLoop(x, prefix, n) ==
    IF n = 0 THEN <<>>
    ELSE LET res == ToDictLoop(x, prefix, n - 1)
             key == GetMembers(x)[n]
             val == x.v[key]
         IN  IF val.j = "snap"
             THEN Update(res, ToDictLoop(val, prefix \o key \o "_", Len(GetMembers(val))))
             ELSE Update(res, (prefix \o key) :> val)

\* to_dict()
ToDict(x) == ToDictLoop(x, "", Len(GetMembers(x)))

-----------------------------------------------------------------------------
(* The inputs the model draws                                              *)

\* 2021-10-30T23:00, 2021-10-31T00:00, 01:00 and 02:00 UTC: 01:00 CEST,
\* 02:00 CEST, 02:00 CET and 03:00 CET in Europe/Prague, whose clocks fall
\* back at 01:00 UTC
Instants == {Day - Hour, Day, Day + Hour, Day + 2 * Hour}
Days == {0, 1}

\* the API's strings, always in UTC
WireF1(utc) == Strftime(Aware(utc, 0), F1)
WireF2(day) == Strftime(Date(day), F2)

\* "2021-10-31 02:00:00": a blank where the format has a T
BlankStr == <<Tok("date", 1), Tok(" ", 0), Tok("time", 2 * Hour)>>

SeqsUpTo(S, n) == UNION {[1..k -> S] : k \in 0..n}

HourlyItems == {JDict([date |-> JStr(WireF1(u))]) : u \in Instants}
DailyItems == {JDict([day |-> JStr(WireF2(d))]) : d \in Days}
\* items a constructor fails on: a null date, no date, a malformed date
BadItems ==
    {JDict([date |-> JNull]), JDict([temperature |-> JNum(1)]),
     JDict([date |-> JStr(BlankStr)])}

Section(items) == JDict([data |-> JList(items)])

\* payloads of one kind of item, and the ones a constructor fails on
Payloads(n) ==
    {JNull} \cup {Section(q) : q \in SeqsUpTo(HourlyItems, n)}
            \cup {Section(q) : q \in SeqsUpTo(DailyItems, n)}
            \cup {Section(<<x>>) : x \in BadItems}

DataTypes == {"hourly", "daily"}

\* the objects an append can be handed: an object of another class, a
\* Timeseries built from no section, or one of the receiver's kind and zone
NotATimeseries == [NoObject EXCEPT !.cls = "AlertsData"]

Built(n, data_type, tz) ==
    {r.val : r \in {o \in {MultipleTimesData(p, data_type, tz) : p \in Payloads(n)} :
                        o.kind = "ok"}}

OperandTable ==
    [d \in DataTypes \cup {""}, tz \in ZoneNames |->
        IF d = "" THEN Built(0, "hourly", tz) ELSE Built(MaxOperand, d, tz)]

\* an instance of a class derived from MultipleTimesData
Derived(x) == [x EXCEPT !.cls = "DerivedFromMultipleTimesData"]

Operands(self) ==
    {self, NotATimeseries, Derived(self)} \cup OperandTable[self.data_type, self.tz]

IntKeys == (0 - MaxLen - 1)..(MaxLen + 1)

StrKeys ==
    {Strftime(FromUtc(z, u), F1) : z \in ZoneNames, u \in Instants}
    \cup {WireF2(d) : d \in Days} \cup {BlankStr}

Offsets == UNION {{Zone(z)[i].off : i \in 1..Len(Zone(z))} : z \in ZoneNames}

\* 2022-03-27T02:30 never happened in Europe/Prague
GapWall == 148 * Day + 2 * Hour + 30 * 60

DatetimeKeys ==
    {Naive(Wall(FromUtc(z, u))) : z \in ZoneNames, u \in Instants}
    \cup {Naive(d * Day) : d \in Days} \cup {Naive(GapWall)}
    \cup {Aware(u, o) : u \in Instants, o \in Offsets}

OtherKeys == {Key("float", Date(1)), Key("date", Date(1)), Key("NoneType", Date(1))}

-----------------------------------------------------------------------------
(* The life of one Timeseries: constructed once, then appended to and      *)
(* indexed.  last records the latest call: the receiver before it, its     *)
(* argument and its outcome.                                               *)

Call(op, pre, arg, key, kind, err, val) ==
    [op |-> op, pre |-> pre, arg |-> arg, key |-> key,
     kind |-> kind, err |-> err, val |-> val]

NoCall == Call("none", NoObject, JNull, Key("none", 0), "none", "", 0)

\* the ways a call can end: its value, or any one of its errors
Ends(r) ==
    IF r.kind = "ok" THEN {[kind |-> "ok", err |-> ""]}
    ELSE {[kind |-> "raise", err |-> e] : e \in r.errs}

Construct ==
    /\ ts.cls = "none" /\ last.op = "none"
    /\ \E p \in Payloads(MaxPayload), d \in DataTypes, tz \in ZoneNames :
         LET r == MultipleTimesData(p, d, tz)
         IN  \E e \in Ends(r) :
               /\ ts' = IF r.kind = "ok" THEN r.val ELSE ts
               /\ last' = Call("init", ts, [data |-> p, data_type |-> d, tz |-> tz],
                               Key("none", 0), e.kind, e.err, 0)
    /\ UNCHANGED <<alerts, forecast, api>>

AppendCall ==
    /\ ts.cls = "MultipleTimesData" /\ last.op = "none"
    /\ \E other \in Operands(ts) :
         LET r == TsAppend(ts, other)
         IN  /\ Len(r.self.data) <= MaxLen
             /\ \E e \in Ends(r.res) :
                  /\ ts' = r.self
                  /\ last' = Call("append", ts, other, Key("none", 0), e.kind, e.err, 0)
    /\ UNCHANGED <<alerts, forecast, api>>

LenCall ==
    /\ ts.cls = "MultipleTimesData" /\ last.op = "none"
    /\ last' = Call("len", ts, JNull, Key("none", 0), "ok", "", PyLen(ts))
    /\ UNCHANGED <<ts, alerts, forecast, api>>

GetItemCall(key) ==
    /\ ts.cls = "MultipleTimesData" /\ last.op = "none"
    /\ LET r == GetItem(ts, key)
       IN  \E e \in Ends(r) :
             last' = Call("getitem", ts, JNull, key, e.kind, e.err, r.val)
    /\ UNCHANGED <<ts, alerts, forecast, api>>

\* the caller takes the outcome of the call; the calls are made one after
\* the other
Return ==
    /\ last.op # "none"
    /\ last' = NoCall
    /\ UNCHANGED <<ts, alerts, forecast, api>>

GetItemInt == \E i \in IntKeys : GetItemCall(Key("int", i))
GetItemStr == \E s \in StrKeys : GetItemCall(Key("str", s))
GetItemDatetime == \E d \in DatetimeKeys : GetItemCall(Key("datetime", d))
GetItemOther == \E k \in OtherKeys : GetItemCall(k)

-----------------------------------------------------------------------------
(* The life of one Alerts container                                        *)

AlertInstants == {Day - Hour, Day, Day + Hour}

AlertItems ==
    {JDict([onset |-> JStr(WireF1(w[1])), expires |-> JStr(WireF1(w[2]))]) :
        w \in {x \in AlertInstants \X AlertInstants : x[1] <= x[2]}}

\* alerts the query fails on: no expiry, a null onset
BadAlertItems ==
    {JDict([onset |-> JStr(WireF1(Day))]),
     JDict([onset |-> JNull, expires |-> JStr(WireF1(Day))])}

AlertPayloads ==
    {JNull} \cup {Section(q) : q \in SeqsUpTo(AlertItems, MaxAlerts)}
            \cup {Section(<<x>>) : x \in BadAlertItems}

\* the instants datetime.now can read
NowInstants == AlertInstants \cup {Day - 2 * Hour, Day + 2 * Hour}

RefStrs ==
    {Strftime(FromUtc(z, u), F1) : z \in ZoneNames, u \in AlertInstants}
    \cup {WireF2(1), BlankStr}

RefDatetimes ==
    {Naive(Wall(FromUtc(z, u))) : z \in ZoneNames, u \in AlertInstants}
    \cup {Aware(u, o) : u \in NowInstants, o \in Offsets}

RefOthers == {Key("date", Date(1)), Key("int", Date(1))}

ConstructAlerts ==
    /\ alerts.cls = "none" /\ last.op = "none"
    /\ \E p \in AlertPayloads, tz \in ZoneNames :
         LET r == AlertsData(p, tz)
         IN  \E e \in Ends(r) :
               /\ alerts' = IF r.kind = "ok" THEN r.val ELSE alerts
               /\ last' = Call("init", alerts, [data |-> p, tz |-> tz],
                               Key("none", 0), e.kind, e.err, 0)
    /\ UNCHANGED <<ts, forecast, api>>

ActiveCall(orig_dt, now) ==
    /\ alerts.cls = "AlertsData" /\ last.op = "none"
    /\ LET r == GetActiveAlerts(alerts, orig_dt, now)
       IN  \E e \in Ends(r) :
             last' = Call("get_active_alerts", alerts, now, orig_dt, e.kind, e.err, r.val)
    /\ UNCHANGED <<ts, alerts, forecast, api>>

ActiveNow == \E now \in NowInstants : ActiveCall(Key("NoneType", Date(0)), now)
ActiveStr == \E s \in RefStrs : ActiveCall(Key("str", s), 0)
ActiveDatetime == \E d \in RefDatetimes : ActiveCall(Key("datetime", d), 0)
ActiveOther == \E k \in RefOthers : ActiveCall(k, 0)

AlertIntKeys == (0 - MaxAlerts - 1)..(MaxAlerts + 1)

\* keys that are no integers; only their type is looked at
AlertOtherKeys ==
    {Key("str", 0), Key("float", 0), Key("datetime", 0), Key("NoneType", 0)}

AlertsGetItemCall(key) ==
    /\ alerts.cls = "AlertsData" /\ last.op = "none"
    /\ LET r == AlertsGetItem(alerts, key)
       IN  \E e \in Ends(r) :
             last' = Call("alerts_getitem", alerts, 0, key, e.kind, e.err, r.val)
    /\ UNCHANGED <<ts, alerts, forecast, api>>

AlertsGetItemInt == \E i \in AlertIntKeys : AlertsGetItemCall(Key("int", i))
AlertsGetItemOther == \E k \in AlertOtherKeys : AlertsGetItemCall(k)

AlertsLenCall ==
    /\ alerts.cls = "AlertsData" /\ last.op = "none"
    /\ last' = Call("alerts_len", alerts, 0, Key("none", 0), "ok", "", AlertsLen(alerts))
    /\ UNCHANGED <<ts, alerts, forecast, api>>

AlertsIterCall ==
    /\ alerts.cls = "AlertsData" /\ last.op = "none"
    /\ LET r == AlertsIter(alerts)
       IN  \E e \in Ends(r) :
             last' = Call("alerts_iter", alerts, 0, Key("none", 0), e.kind, e.err, r.val)
    /\ UNCHANGED <<ts, alerts, forecast, api>>

NextAlerts ==
    \/ ConstructAlerts
    \/ ActiveNow
    \/ ActiveStr
    \/ ActiveDatetime
    \/ ActiveOther
    \/ AlertsGetItemInt
    \/ AlertsGetItemOther
    \/ AlertsLenCall
    \/ AlertsIterCall
    \/ Return

-----------------------------------------------------------------------------
(* The life of one Forecast                                                *)

Text == <<Tok("text", 0)>>

\* sunset at 2021-10-31T10:00 UTC
SunSet == Day + 10 * Hour

Astro(rise, set) ==
    JDict([sun |-> JDict([rise |-> rise, set |-> set]),
           moon |-> JDict([rise |-> JNull, set |-> rise, phase |-> JStr(Text)])])

CurrentGood ==
    {JDict([temperature |-> JNum(21), summary |-> JStr(Text),
            wind |-> JDict([angle |-> JNum(106)])])}

MinutelyGood ==
    {JDict([summary |-> JStr(Text),
            data |-> JList(<<JDict([date |-> JStr(WireF1(Day)),
                                    precipitation |-> JNum(0)])>>)])}

HourlyGood ==
    {Section(<<>>),
     Section(<<JDict([date |-> JStr(WireF1(Day))])>>),
     Section(<<JDict([date |-> JStr(WireF1(Day))]),
               JDict([date |-> JStr(WireF1(Day + Hour))])>>)}

DailyGood ==
    {Section(<<JDict([day |-> JStr(WireF2(1)),
                      astro |-> Astro(JStr(WireF1(r)), JStr(WireF1(SunSet)))])>>) :
        r \in {Day, Day + Hour}}

AlertsGood ==
    {Section(<<>>),
     Section(<<JDict([onset |-> JStr(WireF1(Day)), expires |-> JStr(WireF1(SunSet)),
                      event |-> JStr(Text)])>>)}

\* sections a construction fails on
HourlyBad == {Section(<<JDict([date |-> JNull])>>)}
DailyBad ==
    {Section(<<JDict([day |-> JStr(WireF2(1)),
                      astro |-> Astro(JStr(BlankStr), JStr(WireF1(SunSet)))])>>)}

SectionNames == {"current", "minutely", "hourly", "daily", "alerts"}

Header(k) ==
    CASE k = "lat" -> JStr(<<Tok("num", 51), Tok("N", 0)>>)
      [] k = "lon" -> JStr(<<Tok("num", 1), Tok("W", 0)>>)
      [] k = "elevation" -> JNum(25)
      [] OTHER -> JStr(Text)

\* the payloads: any of the sections may be lacking
ForecastPayloads ==
    {[k \in {"lat", "lon", "elevation", "units"} \cup S |->
         IF k \in S THEN c[k] ELSE Header(k)] :
       S \in SUBSET SectionNames,
       c \in [current : CurrentGood, minutely : MinutelyGood,
              hourly : HourlyGood \cup HourlyBad, daily : DailyGood \cup DailyBad,
              alerts : AlertsGood]}

TimeseriesNames == {"minutely", "hourly", "daily"}

ConstructForecast ==
    /\ forecast.cls = "none" /\ last.op = "none"
    /\ \E p \in ForecastPayloads, tz \in ZoneNames :
         LET r == Forecast(p, tz)
         IN  \E e \in Ends(r) :
               /\ forecast' = IF r.kind = "ok" THEN r.val ELSE forecast
               /\ last' = Call("init", NoObject, [data |-> p, tz |-> tz],
                               Key("none", 0), e.kind, e.err, 0)
    /\ UNCHANGED <<ts, alerts, api>>

\* len(forecast.<section>)
SectionLen ==
    /\ forecast.cls = "Forecast" /\ last.op = "none"
    /\ \E name \in TimeseriesNames :
         last' = Call("len", forecast[name], name, Key("none", 0), "ok", "",
                      PyLen(forecast[name]))
    /\ UNCHANGED <<ts, alerts, forecast, api>>

\* forecast.<section>[i]
SectionGetItem ==
    /\ forecast.cls = "Forecast" /\ last.op = "none"
    /\ \E name \in TimeseriesNames, i \in IntKeys :
         LET r == GetItem(forecast[name], Key("int", i))
         IN  \E e \in Ends(r) :
               last' = Call("getitem", forecast[name], name, Key("int", i),
                            e.kind, e.err, r.val)
    /\ UNCHANGED <<ts, alerts, forecast, api>>

\* names asked for: members of the aggregates, of a Timeseries, of the
\* Snapshots, and one that nothing has
AggregateNames ==
    {"lat", "lon", "elevation", "timezone", "units", "current", "minutely", "hourly",
     "daily", "alerts", "data", "statistics", "nothing"}
TimeseriesAttrs == {"summary", "data_type", "data", "dates_str", "dates_dt", "nothing"}
SnapshotNames ==
    {"temperature", "summary", "wind", "angle", "date", "day", "astro", "sun", "moon",
     "nothing"}

\* the Snapshots of a Forecast that are asked: current, its wind, the first
\* hour, the first day and its astro
SnapshotPaths == 1..5

HasSnapshot(f, c) ==
    CASE c = 1 -> TRUE
      [] c = 2 -> "wind" \in DOMAIN f.current.v
      [] c = 3 -> PyLen(f.hourly) > 0
      [] OTHER -> PyLen(f.daily) > 0

SnapshotAt(f, c) ==
    CASE c = 1 -> f.current
      [] c = 2 -> f.current.v.wind
      [] c = 3 -> f.hourly.data[1]
      [] c = 4 -> f.daily.data[1]
      [] OTHER -> f.daily.data[1].v.astro

KeyedCall(x, r, attr) ==
    \E e \in Ends(r) : last' = Call("keyed", x, 0, attr, e.kind, e.err, r.val)

\* forecast[name]
KeyedForecast ==
    /\ forecast.cls = "Forecast" /\ last.op = "none"
    /\ \E n \in AggregateNames :
         KeyedCall(forecast, Keyed(forecast, Key("str", Name(n))), Key("str", Name(n)))
    /\ UNCHANGED <<ts, alerts, forecast, api>>

\* snapshot[name]
KeyedSnapshot ==
    /\ forecast.cls = "Forecast" /\ last.op = "none"
    /\ \E c \in SnapshotPaths, n \in SnapshotNames :
         /\ HasSnapshot(forecast, c)
         /\ KeyedCall(SnapshotAt(forecast, c),
                      Keyed(SnapshotAt(forecast, c), Key("str", Name(n))),
                      Key("str", Name(n)))
    /\ UNCHANGED <<ts, alerts, forecast, api>>

\* forecast.<section>[name]
KeyedTimeseries ==
    /\ forecast.cls = "Forecast" /\ last.op = "none"
    /\ \E name \in TimeseriesNames, n \in TimeseriesAttrs :
         KeyedCall(forecast[name], GetItem(forecast[name], Key("str", Name(n))),
                   Key("str", Name(n)))
    /\ UNCHANGED <<ts, alerts, forecast, api>>

-----------------------------------------------------------------------------
(* Calls of the Meteosource interface.  api holds the call's arguments,    *)
(* the requests the transport saw and, while get_time_machine loops over   *)
(* its dates, the loop's variables; last holds the outcome once the call   *)
(* has ended.                                                              *)

PlaceIds == {JNull, JStr(<<Tok("place", 0)>>)}
Lats == {JNull, JNum(51)}
Lons == {JNull, JNum(0)}
ApiZones == {"UTC", "Europe/Prague"}

\* 23:59 on 2021-10-31
LateOnDay1 == Day + 23 * Hour + 59 * 60

\* one date as a caller gives it: strings in F2, a plain date, a datetime,
\* a string in another format, a number
DateValues ==
    {JStr(WireF2(0)), JStr(WireF2(1)), JDt(Date(1)), JDt(Naive(LateOnDay1)),
     JStr(BlankStr), JNum(1)}

\* the date argument: nothing, one date, or a list of dates
DateArgs ==
    {JNull} \cup DateValues \cup {JList(q) : q \in SeqsUpTo(DateValues, MaxDates)}

\* the ends of a range; 2021-11-03 is four days after 2021-10-30
RangeEnds == {JNull, JStr(WireF2(4))} \cup DateValues

\* icon codes a response carries: one of the table, one it lacks
IconCodes == {2, 99}

\* the response to a time_machine request for one day
TmPayload(day, n, icon) ==
    JDict([lat |-> Header("lat"), lon |-> Header("lon"),
           elevation |-> Header("elevation"), units |-> Header("units"),
           statistics |-> JDict([temperature |-> JDict([avg |-> JNum(10)])]),
           data |-> JList([h \in 1..n |->
                      JDict([date |-> JStr(WireF1(day * Day + (h - 1) * Hour)),
                             icon |-> JNum(icon)])])])

TmPayloads(day) == {TmPayload(day, n, c) : n \in 0..MaxHours, c \in IconCodes}

\* the responses to a point request: the sections asked for by default
PointPayloads == {p \in ForecastPayloads : DOMAIN p \cap SectionNames = {"current", "hourly"}}

\* TimeMachine(data, tz, day)[name]
KeyedTimeMachine ==
    /\ last.op = "none"
    /\ \E h \in 0..1, tz \in ZoneNames, n \in AggregateNames :
         LET tm == TimeMachine(TmPayload(1, h, 2).v, tz, JStr(WireF2(1))).val
         IN  KeyedCall(tm, Keyed(tm, Key("str", Name(n))), Key("str", Name(n)))
    /\ UNCHANGED <<ts, alerts, forecast, api>>

\* dicts a Snapshot is built from for to_dict: a nested wind with its angle,
\* next to any of a scalar wind_angle, an _id and a temperature; three
\* levels; an empty nested dict and a None
FlattenInputs ==
    {JDict([k \in {"wind"} \cup S |->
              CASE k = "wind" -> JDict([angle |-> a])
                [] k = "wind_angle" -> JNum(7)
                [] k = "_id" -> JNum(1)
                [] OTHER -> JNum(21)]) :
        S \in SUBSET {"wind_angle", "_id", "temperature"}, a \in {JNum(106), JNull}}
    \cup {JDict([all_day |-> JDict([wind |-> JDict([angle |-> JNum(106)]),
                                     temperature |-> JNum(t)]),
                 day |-> JStr(WireF2(1))]) : t \in {20, 21}}
    \cup {JDict([wind |-> JDict(<<>>), temperature |-> JNull]), JDict(<<>>), JNull}

ToDictCall(x) ==
    last' = Call("to_dict", x, 0, Key("none", 0), "ok", "", ToDict(x))

\* snapshot.to_dict() on a Snapshot of the Forecast
ToDictSnapshot ==
    /\ forecast.cls = "Forecast" /\ last.op = "none"
    /\ \E c \in SnapshotPaths :
         /\ HasSnapshot(forecast, c)
         /\ ToDictCall(SnapshotAt(forecast, c))
    /\ UNCHANGED <<ts, alerts, forecast, api>>

\* SingleTimeData(data, tz).to_dict()
ToDictBuilt ==
    /\ last.op = "none"
    /\ \E data \in FlattenInputs, tz \in ZoneNames :
         ToDictCall(SingleTimeData(data, tz).val)
    /\ UNCHANGED <<ts, alerts, forecast, api>>

NextForecast ==
    \/ ConstructForecast
    \/ SectionLen
    \/ SectionGetItem
    \/ KeyedForecast
    \/ KeyedSnapshot
    \/ KeyedTimeseries
    \/ KeyedTimeMachine
    \/ ToDictSnapshot
    \/ ToDictBuilt
    \/ Return

Statuses == {200, 500}

Args(date, date_from, date_to, place_id, lat, lon, tz) ==
    [date |-> date, date_from |-> date_from, date_to |-> date_to,
     place_id |-> place_id, lat |-> lat, lon |-> lon, tz |-> tz]

Ended(op, e, val) ==
    last' = Call(op, NoObject, api'.args, Key("none", 0), e.kind, e.err, val)

\* get_time_machine up to its loop (lines 199-211)
TmCall ==
    /\ api.pc = "idle" /\ last.op = "none"
    /\ \E date \in DateArgs, date_from \in RangeEnds, date_to \in RangeEnds,
          place_id \in PlaceIds, lat \in Lats, lon \in Lons, tz \in ApiZones :
         LET args == Args(date, date_from, date_to, place_id, lat, lon, tz)
             loc == BuildLocationPars([units |-> JStr(Text)], place_id, lat, lon)
             dates == GetTmDates(date, date_from, date_to)
             r == IF loc.kind # "ok" THEN loc ELSE dates
         IN  IF r.kind # "ok"
             THEN /\ api' = [NoApi EXCEPT !.args = args]
                  /\ \E e \in Ends(r) : Ended("get_time_machine", e, 0)
             ELSE /\ api' = Api("loop", args, dates.val, 1, tz,
                                Update(loc.val, [timezone |-> JStr(<<Tok("UTC", 0)>>)]),
                                <<>>, NoTimeMachine)
                  /\ last' = last
    /\ UNCHANGED <<ts, alerts, forecast>>

\* one turn of the loop (lines 213-237): the date parameter, the request,
\* the TimeMachine of the response, and its assignment or append to tm
TmStep ==
    /\ api.pc = "loop" /\ api.k <= Len(api.dates)
    /\ LET d == api.dates[api.k]
           par == DatePar(d)
       IN  IF par.kind # "ok"
           THEN /\ api' = [api EXCEPT !.pc = "idle"]
                /\ \E e \in Ends(par) : Ended("get_time_machine", e, 0)
           ELSE
             \E status \in Statuses, data \in TmPayloads(par.val.v[1].n) :
               LET pars == Update(api.pars, [date |-> par.val])
                   log == Append(api.log, Request("time_machine", pars, status, data))
                   resp == ExecuteRequest(status, data)
                   cur == IF resp.kind # "ok" THEN resp
                          ELSE TimeMachine(resp.val.v, api.tz, d)
                   app == IF cur.kind # "ok" \/ api.tm.cls = "none"
                          THEN [res |-> cur, self |-> cur.val]
                          ELSE TmAppend(api.tm, cur.val)
               IN  IF app.res.kind # "ok"
                   THEN /\ api' = [api EXCEPT !.pc = "idle", !.pars = pars, !.log = log]
                        /\ \E e \in Ends(app.res) : Ended("get_time_machine", e, 0)
                   ELSE /\ api' = [api EXCEPT !.k = api.k + 1, !.pars = pars,
                                              !.log = log, !.tm = app.self]
                        /\ last' = last
    /\ UNCHANGED <<ts, alerts, forecast>>

\* return tm (line 239); tm is still None when the list of dates was empty
TmDone ==
    /\ api.pc = "loop" /\ api.k > Len(api.dates)
    /\ api' = [api EXCEPT !.pc = "idle"]
    /\ Ended("get_time_machine", [kind |-> "ok", err |-> ""], api.tm)
    /\ UNCHANGED <<ts, alerts, forecast>>

\* get_point_forecast with the default sections
PointCall ==
    /\ api.pc = "idle" /\ last.op = "none"
    /\ \E place_id \in PlaceIds, lat \in Lats, lon \in Lons, tz \in ApiZones :
         LET args == Args(JNull, JNull, JNull, place_id, lat, lon, tz)
             loc == BuildLocationPars(
                        [language |-> JStr(Text), units |-> JStr(Text),
                         timezone |-> JStr(<<Tok("UTC", 0)>>), sections |-> JStr(Text)],
                        place_id, lat, lon)
         IN  IF loc.kind # "ok"
             THEN /\ api' = [NoApi EXCEPT !.args = args]
                  /\ \E e \in Ends(loc) : Ended("get_point_forecast", e, 0)
             ELSE \E status \in Statuses, data \in PointPayloads :
                    LET resp == ExecuteRequest(status, data)
                        r == IF resp.kind # "ok" THEN resp ELSE Forecast(resp.val, tz)
                    IN  /\ api' = [NoApi EXCEPT !.args = args, !.tz = tz, !.pars = loc.val,
                                     !.log = <<Request("point", loc.val, status, JDict(data))>>]
                        /\ \E e \in Ends(r) : Ended("get_point_forecast", e, r.val)
    /\ UNCHANGED <<ts, alerts, forecast>>

\* the caller has the outcome; the interface keeps nothing of the call
ApiReturn ==
    /\ api.pc = "idle" /\ last.op # "none"
    /\ last' = NoCall
    /\ api' = NoApi
    /\ UNCHANGED <<ts, alerts, forecast>>

NextApi ==
    \/ TmCall
    \/ TmStep
    \/ TmDone
    \/ PointCall
    \/ ApiReturn

-----------------------------------------------------------------------------
(* Claims about the Timeseries                                             *)

\* the temporal key of a Snapshot of a Timeseries of the given kind
HasTemporalKey(x, data_type) == HasKey(x.v, DateCol(data_type))
TemporalKey(x, data_type) == x.v[DateCol(data_type)].v

\* C1: in every state of a Timeseries built from a payload, whatever appends
\* were made to it, data, dates_str and dates_dt have the same length,
\* dates_dt[i] is the temporal key of data[i] and dates_str[i] is that key
\* formatted.
C1_LockStep ==
    (ts.cls = "MultipleTimesData" /\ ts.populated) =>
        /\ Len(ts.dates_str) = Len(ts.data)
        /\ Len(ts.dates_dt) = Len(ts.data)
        /\ \A i \in 1..Len(ts.data) :
             /\ HasTemporalKey(ts.data[i], ts.data_type)
             /\ ts.dates_dt[i] = TemporalKey(ts.data[i], ts.data_type)
             /\ ts.dates_str[i] =
                  Strftime(TemporalKey(ts.data[i], ts.data_type), Form(ts.data_type))

\* a Timeseries that held entries and grew by an append
C1_Witness ==
    /\ last.op = "append" /\ last.kind = "ok"
    /\ Len(last.pre.data) > 0
    /\ Len(ts.data) > Len(last.pre.data)

\* C2: an append of one populated Timeseries to another succeeds, leaves the
\* receiver's entries where they were and puts the operand's entries after
\* them in the operand's order, equal dates or not.
C2_AppendConcat ==
    (/\ last.op = "append"
     /\ last.pre.populated
     /\ last.arg.cls = "MultipleTimesData" /\ last.arg.populated) =>
        LET a == last.pre
            b == last.arg
            n == Len(a.data)
        IN  /\ last.kind = "ok"
            /\ PyLen(ts) = PyLen(a) + PyLen(b)
            /\ Len(ts.dates_str) = n + Len(b.data)
            /\ Len(ts.dates_dt) = n + Len(b.data)
            /\ \A i \in 1..n :
                 /\ ts.data[i] = a.data[i]
                 /\ ts.dates_str[i] = a.dates_str[i]
                 /\ ts.dates_dt[i] = a.dates_dt[i]
            /\ \A j \in 1..Len(b.data) :
                 /\ ts.data[n + j] = b.data[j]
                 /\ ts.dates_str[n + j] = b.dates_str[j]
                 /\ ts.dates_dt[n + j] = b.dates_dt[j]

\* an append whose operand holds a date the receiver holds too, and an
\* earlier date after a later one
C2_Witness ==
    /\ last.op = "append" /\ last.kind = "ok"
    /\ \E i \in 1..Len(last.pre.data), j \in 1..Len(last.arg.data) :
         last.pre.dates_str[i] = last.arg.dates_str[j]
    /\ \E i \in 1..Len(last.pre.data), j \in 1..Len(last.arg.data) :
         Wall(last.arg.dates_dt[j]) < Wall(last.pre.dates_dt[i])

\* C3: indexing a non-empty Timeseries by a string returns the entry at the
\* first position whose dates_str is that very string, an entry whose
\* temporal key formats back to the string, and fails with
\* InvalidStrIndexError when no dates_str is that string; every dates_str[i]
\* of the Timeseries is found.
C3_StrIndex ==
    /\ (last.op = "getitem" /\ last.key.ty = "str" /\ PyLen(last.pre) > 0) =>
          LET q == last.pre.dates_str
              hits == {j \in 1..Len(q) : q[j] = last.key.v}
          IN  IF hits = {}
              THEN last.kind = "raise" /\ last.err = "InvalidStrIndexError"
              ELSE /\ last.kind = "ok"
                   /\ last.val \in hits
                   /\ \A j \in hits : last.val <= j
                   /\ Strftime(TemporalKey(last.pre.data[last.val], last.pre.data_type),
                               Form(last.pre.data_type)) = last.key.v
    /\ (ts.cls = "MultipleTimesData" /\ ts.populated) =>
          \A i \in 1..Len(ts.dates_str) :
             LET r == GetItem(ts, Key("str", ts.dates_str[i]))
             IN  /\ r.kind = "ok"
                 /\ r.val <= i
                 /\ ts.dates_str[r.val] = ts.dates_str[i]

\* a string that two entries share is looked up, and the first is returned
C3_Witness ==
    /\ last.op = "getitem" /\ last.key.ty = "str" /\ last.kind = "ok"
    /\ \E j \in 1..Len(last.pre.dates_str) :
         j > last.val /\ last.pre.dates_str[j] = last.key.v

\* the instants at which a zone's clocks show a wall-clock time: none for a
\* time the clocks skip, two for a time they repeat
WallInstants(tz, wall) ==
    {u \in {wall - o : o \in Offsets} : Wall(FromUtc(tz, u)) = wall}

\* the first position of dates_dt that holds an aware datetime of an instant
FirstAt(self, utc) ==
    LET hits == {j \in 1..Len(self.dates_dt) :
                    self.dates_dt[j].k = "aware" /\ self.dates_dt[j].t = utc}
    IN  IF hits = {} THEN 0 ELSE CHOOSE j \in hits : \A h \in hits : j <= h

WireInstant(item) == Strptime(item.v.date.v, F1)

\* C5: an hourly Timeseries keeps one entry per item of its payload, in the
\* payload's order, each at the instant the API wrote; two items of different
\* instants that show the same wall-clock time in the target zone are two
\* entries with different dates_dt and the same dates_str.
C5_FallBack ==
    (/\ last.op = "init" /\ last.kind = "ok"
     /\ last.arg.data.j # "null" /\ last.arg.data_type = "hourly") =>
        LET items == last.arg.data.v.data.v
        IN  /\ PyLen(ts) = Len(items)
            /\ \A i \in 1..Len(items) :
                 /\ ts.dates_dt[i].k = "aware"
                 /\ ts.dates_dt[i].t = WireInstant(items[i])
                 /\ ts.dates_str[i] = Strftime(FromUtc(ts.tz, WireInstant(items[i])), F1)
            /\ \A i, j \in 1..Len(items) :
                 WireInstant(items[i]) # WireInstant(items[j]) =>
                    ~PyEq(ts.dates_dt[i], ts.dates_dt[j])

\* the four hours around the fall-back of Europe/Prague: 01:00, 02:00, 02:00
\* and 03:00, the repeated hour at two different instants
C5_Witness ==
    /\ last.op = "init" /\ last.kind = "ok"
    /\ ts.tz = "Europe/Prague" /\ ts.populated /\ ts.data_type = "hourly"
    /\ ts.dates_str = << <<Tok("date", 1), Tok("T", 0), Tok("time", Hour)>>,
                         <<Tok("date", 1), Tok("T", 0), Tok("time", 2 * Hour)>>,
                         <<Tok("date", 1), Tok("T", 0), Tok("time", 2 * Hour)>>,
                         <<Tok("date", 1), Tok("T", 0), Tok("time", 3 * Hour)>> >>
    /\ ~PyEq(ts.dates_dt[2], ts.dates_dt[3])

C22_WrongClass ==
    (last.op = "append" /\ last.arg.cls # "MultipleTimesData") =>
        /\ last.kind = "raise" /\ last.err = "InvalidClassType"
        /\ ts = last.pre
        /\ ts.data = last.pre.data
        /\ ts.dates_str = last.pre.dates_str
        /\ ts.dates_dt = last.pre.dates_dt

\* an instance of a derived class that holds entries, appended to a
\* Timeseries that holds entries
C22_Witness ==
    /\ last.op = "append" /\ last.err = "InvalidClassType"
    /\ last.arg.cls = "DerivedFromMultipleTimesData"
    /\ Len(last.arg.data) > 0 /\ Len(last.pre.data) > 0

\* C23: indexing a Timeseries of n > 0 entries by an integer i returns
\* data[i] for 0 <= i < n and data[n + i] for -n <= i < 0, fails with
\* IndexError for every other integer, and leaves the Timeseries as it was.
\* (Positions are counted from 1 here: data[i] is position i + 1.)
C23_IntIndex ==
    (last.op = "getitem" /\ last.key.ty = "int" /\ PyLen(last.pre) > 0) =>
        LET n == Len(last.pre.data)
            i == last.key.v
        IN  /\ ts = last.pre
            /\ (0 <= i /\ i < n) => last.kind = "ok" /\ last.val = i + 1
            /\ (0 - n <= i /\ i < 0) => last.kind = "ok" /\ last.val = n + i + 1
            /\ (i >= n \/ i < 0 - n) => last.kind = "raise" /\ last.err = "IndexError"

\* index -1 of a Timeseries of several entries is its last entry
C23_Witness ==
    /\ last.op = "getitem" /\ last.key.ty = "int" /\ last.key.v = 0 - 1
    /\ Len(last.pre.data) >= 2
    /\ last.kind = "ok" /\ last.val = Len(last.pre.data)

\* C28: an append of a MultipleTimesData to a MultipleTimesData succeeds,
\* also when one of them was built from an absent section, and gives
\* len(self) + len(other) entries with the three lists in lock-step.
C28_Claimed ==
    (last.op = "append" /\ last.arg.cls = "MultipleTimesData") =>
        /\ last.kind = "ok"
        /\ PyLen(ts) = PyLen(last.pre) + PyLen(last.arg)
        /\ Len(ts.dates_str) = Len(ts.data)
        /\ Len(ts.dates_dt) = Len(ts.data)

\* C28, as far as the code goes: the append succeeds when both were built
\* from a section; when either was built from an absent section it ends in
\* the AttributeError of the missing data member and changes nothing.
C28_Append ==
    (last.op = "append" /\ last.arg.cls = "MultipleTimesData") =>
        IF last.pre.populated /\ last.arg.populated
        THEN /\ last.kind = "ok"
             /\ PyLen(ts) = PyLen(last.pre) + PyLen(last.arg)
        ELSE /\ last.kind = "raise" /\ last.err = "AttributeError"
             /\ ts = last.pre

\* a Timeseries built from an absent section, appended to one with entries
C28_Witness ==
    /\ last.op = "append" /\ last.err = "AttributeError"
    /\ last.arg.cls = "MultipleTimesData" /\ ~last.arg.populated
    /\ last.pre.populated /\ Len(last.pre.data) > 0

\* the first position of dates_dt that holds the very value d
FirstSame(self, d) ==
    CHOOSE j \in 1..Len(self.dates_dt) :
       self.dates_dt[j] = d /\ \A h \in 1..(j - 1) : self.dates_dt[h] # d

\* C25: indexing a Timeseries by one of its own dates_dt succeeds and returns
\* the first entry that holds that value, in a daily Timeseries too.
C25_Claimed ==
    (/\ last.op = "getitem" /\ last.key.ty = "datetime"
     /\ \E i \in 1..Len(last.pre.dates_dt) : last.pre.dates_dt[i] = last.key.v) =>
        /\ last.kind = "ok"
        /\ last.val = FirstSame(last.pre, last.key.v)

\* C25, as far as the code goes: so it is where the keys are instants; the
\* keys of a daily Timeseries are naive datetimes, the key of the lookup is
\* made aware, and the lookup ends in InvalidDatetimeIndexError.
C25_OwnKey ==
    (/\ last.op = "getitem" /\ last.key.ty = "datetime"
     /\ \E i \in 1..Len(last.pre.dates_dt) : last.pre.dates_dt[i] = last.key.v) =>
        IF last.pre.data_type = "daily"
        THEN last.kind = "raise" /\ last.err = "InvalidDatetimeIndexError"
        ELSE last.kind = "ok" /\ last.val = FirstSame(last.pre, last.key.v)

\* a daily Timeseries asked for the datetime of its first day
C25_Witness ==
    /\ last.op = "getitem" /\ last.key.ty = "datetime"
    /\ last.pre.data_type = "daily" /\ Len(last.pre.dates_dt) > 0
    /\ last.pre.dates_dt[1] = last.key.v
    /\ last.err = "InvalidDatetimeIndexError"

\* a string lookup has found an entry of a Timeseries keyed by instants
FoundByStr ==
    /\ last.op = "getitem" /\ last.key.ty = "str" /\ last.kind = "ok"
    /\ last.pre.data_type = "hourly"

\* the lookup by the naive datetime parsed from the string of the lookup
ByNaive == GetItem(last.pre, Key("datetime", Naive(Strptime(last.key.v, F1))))

\* C26: every string of dates_str and the naive datetime parsed from it find
\* the same Snapshot, also when the string names an hour that a fall-back
\* repeats.
C26_Claimed ==
    FoundByStr =>
        /\ ByNaive.kind = "ok"
        /\ last.pre.data[ByNaive.val] = last.pre.data[last.val]

\* C26, as far as the code goes: so it is for a wall-clock time that the zone
\* shows once.  Of an hour that a fall-back repeats the string finds the
\* first entry that shows it, and the naive datetime the first entry of its
\* later, standard-time occurrence, or nothing when no entry is of that one.
C26_StrNaive ==
    FoundByStr =>
        LET a == last.pre
            w == WallInstants(a.tz, Strptime(last.key.v, F1))
            later == CHOOSE u \in w : \A x \in w : x <= u
        IN  /\ last.val = FirstStr(a.dates_str, last.key.v)
            /\ Cardinality(w) \in {1, 2}
            /\ Cardinality(w) = 1 =>
                  /\ ByNaive.kind = "ok"
                  /\ a.data[ByNaive.val] = a.data[last.val]
            /\ Cardinality(w) = 2 =>
                  /\ ByNaive.kind = "ok" <=> FirstAt(a, later) # 0
                  /\ ByNaive.kind = "ok" => ByNaive.val = FirstAt(a, later)
                  /\ ByNaive.kind = "raise" => ByNaive.errs = {"InvalidDatetimeIndexError"}

\* 02:00 of 2021-10-31 in Europe/Prague, held twice: the string finds the
\* first entry, the naive datetime the second
C26_Witness ==
    /\ FoundByStr /\ last.pre.tz = "Europe/Prague"
    /\ Cardinality(WallInstants(last.pre.tz, Strptime(last.key.v, F1))) = 2
    /\ ByNaive.kind = "ok"
    /\ last.val = 1 /\ ByNaive.val = 2
    /\ last.pre.dates_str[1] = last.pre.dates_str[2]

-----------------------------------------------------------------------------
(* Claims about the Alerts container                                       *)

\* the instant a reference time stands for, when the zone leaves no choice:
\* an aware datetime is its instant, None is now, a string or a naive
\* datetime is the one instant at which the zone shows that wall-clock time
RefWall(key) == IF key.ty = "str" THEN Strptime(key.v, F1) ELSE key.v.t

RefInstants(self, key, now) ==
    IF key.ty = "NoneType" THEN {now}
    ELSE IF key.ty = "datetime" /\ key.v.k = "aware" THEN {key.v.t}
    ELSE WallInstants(self.tz, RefWall(key))

IsRef(key) ==
    \/ key.ty \in {"NoneType", "datetime"}
    \/ key.ty = "str" /\ StrptimeOk(key.v, F1)

WellFormed(self) ==
    /\ self.populated
    /\ \A i \in 1..Len(self.data) :
         /\ HasKey(self.data[i].v, "onset")
         /\ HasKey(self.data[i].v, "expires")

\* C9: on a container whose alerts all have an onset and an expiry,
\* get_active_alerts returns the alerts with onset <= t <= expires, both
\* bounds included, in the container's order, and leaves the container as it
\* was.
C9_ActiveAlerts ==
    (last.op = "get_active_alerts" /\ IsRef(last.key) /\ WellFormed(last.pre)) =>
        LET a == last.pre
            in(i, t) == a.data[i].v.onset.v.t <= t /\ t <= a.data[i].v.expires.v.t
        IN  /\ last.kind = "ok"
            /\ alerts = a
            /\ \A h \in 1..Len(last.val) : last.val[h] \in 1..Len(a.data)
            /\ \A h \in 1..(Len(last.val) - 1) : last.val[h] < last.val[h + 1]
            /\ \A t \in RefInstants(a, last.key, last.arg) :
                 Cardinality(RefInstants(a, last.key, last.arg)) = 1 =>
                    \A i \in 1..Len(a.data) :
                       (\E h \in 1..Len(last.val) : last.val[h] = i) <=> in(i, t)

\* a query at the very expiry of one alert, which is returned, and after the
\* expiry of another, which is not
C9_Witness ==
    /\ last.op = "get_active_alerts" /\ last.kind = "ok"
    /\ last.key.ty = "datetime" /\ last.key.v.k = "aware"
    /\ Len(last.pre.data) = 2
    /\ Len(last.val) = 1
    /\ last.pre.data[last.val[1]].v.expires.v.t = last.key.v.t
    /\ last.pre.data[last.val[1]].v.onset.v.t < last.key.v.t

\* C10: a string in the wire format and the naive datetime of the same
\* wall-clock fields give the same result, the one of that wall-clock time of
\* the container's zone; an aware datetime counts by its instant alone; a
\* string that is not in the format fails with InvalidDateFormat and a value
\* of another type with InvalidClassType, whatever the container holds.
C10_Reference ==
    (last.op = "get_active_alerts") =>
        LET a == last.pre
            k == last.key
            same(r) == r.kind = last.kind /\ r.val = last.val /\ last.err \in r.errs \cup {""}
        IN  /\ (k.ty = "str" /\ ~StrptimeOk(k.v, F1)) =>
                  last.kind = "raise" /\ last.err = "InvalidDateFormat"
            /\ k.ty \notin {"NoneType", "str", "datetime"} =>
                  last.kind = "raise" /\ last.err = "InvalidClassType"
            /\ (k.ty = "str" /\ StrptimeOk(k.v, F1)) =>
                  /\ same(GetActiveAlerts(a, Key("datetime", Naive(Strptime(k.v, F1))), 0))
                  /\ \A u \in WallInstants(a.tz, Strptime(k.v, F1)) :
                       Cardinality(WallInstants(a.tz, Strptime(k.v, F1))) = 1 =>
                          same(GetActiveAlerts(a, Key("datetime", Aware(u, 0)), 0))
            /\ (k.ty = "datetime" /\ k.v.k = "naive") =>
                  /\ same(GetActiveAlerts(a, Key("str", Strftime(k.v, F1)), 0))
                  /\ \A u \in WallInstants(a.tz, k.v.t) :
                       Cardinality(WallInstants(a.tz, k.v.t)) = 1 =>
                          same(GetActiveAlerts(a, Key("datetime", Aware(u, 0)), 0))
            /\ (k.ty = "datetime" /\ k.v.k = "aware") =>
                  \A o \in Offsets : same(GetActiveAlerts(a, Key("datetime", Aware(k.v.t, o)), 0))

\* a string names a wall-clock time of a zone ahead of UTC and finds an alert
\* that the same string read as UTC would miss
C10_Witness ==
    /\ last.op = "get_active_alerts" /\ last.kind = "ok"
    /\ last.key.ty = "str"
    /\ last.pre.tz = "Asia/Tehran"
    /\ Len(last.val) > 0
    /\ Scan(last.pre, Aware(Strptime(last.key.v, F1), 0)).val = <<>>

\* C11: a key that is no integer fails with InvalidAlertIndexTypeError, and
\* an integer key into a container that holds no alert fails with
\* EmptyInstanceError, whether the payload had an alerts section with an
\* empty list or no alerts section.
C11_Claimed ==
    (last.op = "alerts_getitem") =>
        /\ last.key.ty # "int" =>
              last.kind = "raise" /\ last.err = "InvalidAlertIndexTypeError"
        /\ (last.key.ty = "int" /\ AlertsLen(last.pre) = 0) =>
              last.kind = "raise" /\ last.err = "EmptyInstanceError"

\* C11, as far as the code goes: the same, for the containers that were
\* given an alerts section; without one an integer key ends in the
\* AttributeError of the missing data member.
C11_AlertIndex ==
    (last.op = "alerts_getitem") =>
        /\ last.key.ty # "int" =>
              last.kind = "raise" /\ last.err = "InvalidAlertIndexTypeError"
        /\ (last.key.ty = "int" /\ last.pre.populated /\ Len(last.pre.data) = 0) =>
              last.kind = "raise" /\ last.err = "EmptyInstanceError"
        /\ (last.key.ty = "int" /\ ~last.pre.populated) =>
              last.kind = "raise" /\ last.err = "AttributeError"

\* an integer key into the container of a payload without alerts section
C11_Witness ==
    /\ last.op = "alerts_getitem" /\ last.key.ty = "int" /\ last.key.v = 0
    /\ ~last.pre.populated
    /\ last.kind = "raise" /\ last.err = "AttributeError"

\* C12: len is the number of alerts and iteration yields the alerts in
\* their order; a container built without an alerts section has length 0
\* and its iteration and its active-alerts query yield nothing.
C12_Claimed ==
    /\ (last.op = "alerts_len") =>
          last.val = (IF last.pre.populated THEN Len(last.pre.data) ELSE 0)
    /\ (last.op = "alerts_iter") =>
          /\ last.kind = "ok"
          /\ last.val = [i \in 1..AlertsLen(last.pre) |-> i]
    /\ (last.op = "get_active_alerts" /\ ~last.pre.populated /\ IsRef(last.key)) =>
          last.kind = "ok" /\ last.val = <<>>

\* C12, as far as the code goes: length holds for every container and
\* iteration for those given an alerts section; without one, iteration and
\* the query end in the AttributeError of the missing data member.
C12_LenIter ==
    /\ (last.op = "alerts_len") =>
          last.val = (IF last.pre.populated THEN Len(last.pre.data) ELSE 0)
    /\ (last.op = "alerts_iter" /\ last.pre.populated) =>
          /\ last.kind = "ok"
          /\ last.val = [i \in 1..Len(last.pre.data) |-> i]
    /\ (/\ last.op \in {"alerts_iter", "get_active_alerts"}
        /\ ~last.pre.populated /\ IsRef(last.key)) =>
          last.kind = "raise" /\ last.err = "AttributeError"

\* iteration over the container of a payload without alerts section
C12_Witness ==
    /\ last.op = "alerts_iter" /\ ~last.pre.populated
    /\ last.kind = "raise" /\ last.err = "AttributeError"

-----------------------------------------------------------------------------
(* Claims about the Forecast                                               *)

\* every string under a temporal key of a dict, at any depth, is in the
\* Snapshot the aware datetime of the instant the string names in UTC, with
\* the wall-clock fields the zone shows at that instant
RECURSIVE Converted(_, _, _)
Converted(data, snap, tz) ==
    \A k \in DOMAIN data :
       /\ k \in DOMAIN snap
       /\ IF data[k].j = "dict"
          THEN snap[k].j = "snap" /\ Converted(data[k].v, snap[k].v, tz)
          ELSE (k \in TemporalKeys /\ data[k].j = "str") =>
                  /\ snap[k].j = "dt"
                  /\ snap[k].v.k = "aware"
                  /\ snap[k].v.t = Strptime(data[k].v, F1)
                  /\ Wall(snap[k].v) = Strptime(data[k].v, F1) + InfoAt(tz, snap[k].v.t).off

ConvertedList(data, obj, tz) ==
    data.j # "null" =>
       /\ Len(obj.data) = Len(data.v.data.v)
       /\ \A i \in 1..Len(obj.data) : Converted(data.v.data.v[i].v, obj.data[i].v, tz)

\* C6: in a Forecast that was built, every date, rise, set, onset and expires
\* that the payload gives as a string, at any depth of any section, is the
\* instant the string names in UTC, shown in the target zone.
C6_Temporal ==
    (last.op = "init" /\ last.kind = "ok" /\ forecast.cls = "Forecast") =>
        LET p == last.arg.data
            tz == last.arg.tz
        IN  /\ Get(p, "current").j # "null" =>
                  Converted(p.current.v, forecast.current.v, tz)
            /\ \A name \in TimeseriesNames : ConvertedList(Get(p, name), forecast[name], tz)
            /\ ConvertedList(Get(p, "alerts"), forecast.alerts, tz)

\* a sunset at 10:00 UTC, three dicts deep, is 13:30 in Asia/Tehran
C6_Witness ==
    /\ last.op = "init" /\ last.kind = "ok" /\ forecast.cls = "Forecast"
    /\ forecast.timezone = "Asia/Tehran"
    /\ forecast.daily.populated
    /\ Wall(forecast.daily.data[1].v.astro.v.sun.v.set.v) = Day + 13 * Hour + 30 * 60
    /\ forecast.daily.data[1].v.astro.v.sun.v.set.v.t = SunSet

GoodSections ==
    [current |-> CurrentGood, minutely |-> MinutelyGood, hourly |-> HourlyGood,
     daily |-> DailyGood, alerts |-> AlertsGood]

\* C7: a payload whose sections are well formed builds a Forecast whichever
\* sections it lacks; the Timeseries of a lacking section has length 0, and
\* an integer index into it fails with EmptyInstanceError.
C7_LackingSection ==
    /\ (/\ last.op = "init"
        /\ \A k \in DOMAIN last.arg.data \cap SectionNames :
              last.arg.data[k] \in GoodSections[k]) => last.kind = "ok"
    /\ (last.op = "init" /\ forecast.cls = "Forecast") =>
          \A name \in TimeseriesNames \ DOMAIN last.arg.data :
             /\ PyLen(forecast[name]) = 0
             /\ \A i \in IntKeys :
                  GetItem(forecast[name], Key("int", i)) = Raise({"EmptyInstanceError"})
    /\ (/\ last.op \in {"len", "getitem"} /\ forecast.cls = "Forecast"
        /\ ~last.pre.populated) =>
          IF last.op = "len" THEN last.kind = "ok" /\ last.val = 0
          ELSE last.kind = "raise" /\ last.err = "EmptyInstanceError"

\* a Forecast with hours and without minutes, indexed by 0 in its minutes
C7_Witness ==
    /\ last.op = "getitem" /\ forecast.cls = "Forecast"
    /\ last.arg = "minutely" /\ last.key.v = 0
    /\ last.err = "EmptyInstanceError"
    /\ PyLen(forecast.hourly) > 0

IsTimeseries(x) == "cls" \in DOMAIN x /\ x.cls = "MultipleTimesData"

\* C20: for every attribute name n of an aggregate, a Timeseries or a
\* Snapshot x, x[n] returns what x.n holds.
C20_Claimed ==
    (last.op = "keyed" /\ GetAttr(last.pre, last.key).kind = "ok") =>
        /\ last.kind = "ok"
        /\ last.val = GetAttr(last.pre, last.key).val

\* C20, as far as the code goes: the same on the aggregates (Forecast,
\* TimeMachine) and on a Snapshot, where a name the object lacks fails alike
\* both ways; on a Timeseries a string key is looked up among the date
\* strings, so an attribute name fails with InvalidStrIndexError, or with
\* EmptyInstanceError on a Timeseries of length 0.
C20_Keyed ==
    (last.op = "keyed") =>
        LET x == last.pre
            a == GetAttr(x, last.key)
        IN  IF IsTimeseries(x)
            THEN /\ last.kind = "raise"
                 /\ last.err = IF PyLen(x) = 0 THEN "EmptyInstanceError"
                               ELSE "InvalidStrIndexError"
            ELSE /\ last.kind = a.kind
                 /\ a.kind = "ok" => last.val = a.val
                 /\ a.kind = "raise" => last.err = "AttributeError"

\* forecast["hourly"] is the Timeseries forecast.hourly
C20_Witness ==
    /\ last.op = "keyed"
    /\ ~IsTimeseries(last.pre) /\ "cls" \in DOMAIN last.pre
    /\ last.pre.cls = "Forecast"
    /\ last.key.v = Name("hourly") /\ last.kind = "ok"
    /\ last.val = forecast.hourly /\ PyLen(last.val) > 0

\* the paths of the leaves of a Snapshot: the names from the root down to
\* a field that is no Snapshot
RECURSIVE Leaves(_)
Leaves(x) ==
    UNION {IF x.v[k].j = "snap" THEN {<<k>> \o q : q \in Leaves(x.v[k])} ELSE {<<k>>} :
             k \in DOMAIN x.v}

\* the value at the end of a path
RECURSIVE ValueAt(_, _)
ValueAt(x, q) == IF Len(q) = 1 THEN x.v[q[1]] ELSE ValueAt(x.v[q[1]], Tail(q))

\* the names of a path joined with '_'
RECURSIVE Joined(_)
Joined(q) == IF Len(q) = 1 THEN q[1] ELSE q[1] \o "_" \o Joined(Tail(q))

\* the leaves to_dict comes to: no name on the path starts with '_'
Listed(x) == {q \in Leaves(x) : \A i \in 1..Len(q) : ~StartsWithUnderscore(q[i])}

\* no other leaf of the Snapshot has the flattened key of this one
Alone(x, q) == \A o \in Leaves(x) : Joined(o) = Joined(q) => o = q

Flattened == last.op = "to_dict"

\* C21: to_dict gives a mapping of one level with one entry per leaf of the
\* Snapshot: its key the names of the path joined with '_', its value the
\* value of the leaf; no value is a Snapshot.
C21_Claimed ==
    Flattened =>
        /\ DOMAIN last.val = {Joined(q) : q \in Leaves(last.pre)}
        /\ \A q \in Leaves(last.pre) : last.val[Joined(q)] = ValueAt(last.pre, q)
        /\ \A k \in DOMAIN last.val : last.val[k].j # "snap"

\* C21, as far as the code goes: the keys are the joined paths of the leaves
\* with no name that starts with '_' on their path; a key that one leaf alone
\* gives holds that leaf's value, a key that several give holds the value of
\* one of them; no value is a Snapshot.
C21_Flatten ==
    Flattened =>
        /\ DOMAIN last.val = {Joined(q) : q \in Listed(last.pre)}
        /\ \A q \in Listed(last.pre) :
              /\ Alone(last.pre, q) => last.val[Joined(q)] = ValueAt(last.pre, q)
              /\ \E o \in Listed(last.pre) :
                    Joined(o) = Joined(q) /\ last.val[Joined(q)] = ValueAt(last.pre, o)
        /\ \A k \in DOMAIN last.val : last.val[k].j # "snap"

\* three levels flattened: all_day.wind.angle is all_day_wind_angle
C21_Deep ==
    /\ Flattened
    /\ <<"all_day", "wind", "angle">> \in Leaves(last.pre)
    /\ "all_day_wind_angle" \in DOMAIN last.val
    /\ last.val["all_day_wind_angle"] = JNum(106)

\* a nested wind.angle of 106 next to a scalar wind_angle of 7: the one key
\* wind_angle holds 7, and 106 is nowhere in the result
C21_Witness ==
    /\ Flattened
    /\ {<<"wind", "angle">>, <<"wind_angle">>} \subseteq Leaves(last.pre)
    /\ ValueAt(last.pre, <<"wind", "angle">>) = JNum(106)
    /\ last.val["wind_angle"] = JNum(7)
    /\ \A k \in DOMAIN last.val : last.val[k] # JNum(106)

\* C29: flattening loses no field: to_dict has as many entries as the
\* Snapshot has leaves; two paths never give the same key.
C29_Claimed ==
    Flattened =>
        /\ Cardinality(DOMAIN last.val) = Cardinality(Leaves(last.pre))
        /\ \A q \in Leaves(last.pre) : Alone(last.pre, q)

\* C29, as far as the code goes: to_dict has as many entries as there are
\* different joined paths among the leaves it comes to, which is the number
\* of leaves when no name starts with '_' and no two paths join to one key.
C29_Entries ==
    Flattened =>
        /\ Cardinality(DOMAIN last.val) = Cardinality({Joined(q) : q \in Listed(last.pre)})
        /\ Cardinality(DOMAIN last.val) <= Cardinality(Leaves(last.pre))
        /\ (Listed(last.pre) = Leaves(last.pre) /\ \A q \in Leaves(last.pre) : Alone(last.pre, q))
              => Cardinality(DOMAIN last.val) = Cardinality(Leaves(last.pre))

\* wind.angle, wind_angle and temperature: three leaves, two entries
C29_Witness ==
    /\ Flattened
    /\ Leaves(last.pre) = {<<"wind", "angle">>, <<"wind_angle">>, <<"temperature">>}
    /\ DOMAIN last.val = {"wind_angle", "temperature"}

-----------------------------------------------------------------------------
(* Claims about the TimeMachine and the Meteosource interface              *)

\* the loop has built a TimeMachine from the response to request j
Fetched(j) ==
    /\ j \in 1..Len(api.log)
    /\ api.log[j].endpoint = "time_machine" /\ api.log[j].status = 200

\* get_time_machine ended while it was building the TimeMachine of the
\* response to its latest request
FailedOnResponse ==
    /\ last.op = "get_time_machine" /\ last.kind = "raise"
    /\ Len(api.log) = api.k /\ Fetched(api.k)

\* the icon codes of the response to request j
IconsOf(j) ==
    {api.log[j].data.v.data.v[h].v.icon.v : h \in 1..Len(api.log[j].data.v.data.v)}

\* the category of an icon code as the claim has it: the table's entry, or
\* the entry of category 1 for a code the table lacks
Category(icon) == IF icon \in DOMAIN ICONS THEN ICONS[icon] ELSE ICONS[1]

Categorised(tm) ==
    \A h \in 1..Len(tm.data.data) :
       LET x == tm.data.data[h].v
       IN  /\ x.weather = Category(x.icon.v).weather
           /\ x.weather_id = Category(x.icon.v).weather_id

\* C13: no TimeMachine fails to be built from a response, whatever icon
\* codes it carries, and every Snapshot of an Archive has the weather and
\* weather_id of its icon code's table entry, or of category 1 when the table
\* lacks the code.
C13_Claimed ==
    /\ ~FailedOnResponse
    /\ api.tm.cls = "TimeMachine" => Categorised(api.tm)

\* C13, as far as the code goes: codes of the table get their entry; a code
\* the table lacks ends the construction in a TypeError.
C13_IconLookup ==
    /\ FailedOnResponse =>
          last.err = "TypeError" /\ IconsOf(api.k) \ DOMAIN ICONS # {}
    /\ \A j \in 1..Len(api.log) :
          (Fetched(j) /\ IconsOf(j) \ DOMAIN ICONS # {}) => j = api.k /\ FailedOnResponse
    /\ api.tm.cls = "TimeMachine" =>
          /\ Categorised(api.tm)
          /\ \A h \in 1..Len(api.tm.data.data) :
                api.tm.data.data[h].v.icon.v \in DOMAIN ICONS

\* the second day's response carries icon code 99
C13_Witness ==
    /\ FailedOnResponse /\ api.k = 2
    /\ last.err = "TypeError"
    /\ 99 \in IconsOf(2)
    /\ PyLen(api.tm.data) > 0

\* a get_time_machine call: in its loop, or ended
InTm == api.pc = "loop" \/ last.op = "get_time_machine"
TmOk == last.op = "get_time_machine" /\ last.kind = "ok"

Given(x) == x.j # "null"

\* the calendar day a date argument names, whatever its type
ArgDay(x) == IF x.j = "str" THEN x.v[1].n ELSE Wall(x.v) \div Day

\* the request for the k-th date carries that date in the format F2
Carries(k) ==
    /\ api.log[k].endpoint = "time_machine"
    /\ api.log[k].pars.date = JStr(<<Tok("date", ArgDay(api.dates[k]))>>)

\* the Snapshots the response to request k gives, loaded on their own
PerDay(k) == TimeMachine(api.log[k].data.v, api.tz, api.dates[k]).val.data

RECURSIVE Merged(_, _)
Merged(field, k) == IF k = 0 THEN <<>> ELSE Merged(field, k - 1) \o PerDay(k)[field]

RECURSIVE SumLen(_)
SumLen(k) == IF k = 0 THEN 0 ELSE SumLen(k - 1) + Len(PerDay(k).data)

\* C14: get_time_machine makes one request per date, one after the other in
\* the order of the list, the k-th carrying the k-th date; the Archive it
\* returns holds the days' results one after the other in that order, so
\* its length is the sum of theirs.  (For an empty list it makes no request
\* and returns None.)
C14_Sequential ==
    /\ InTm =>
          /\ Len(api.log) <= Len(api.dates)
          /\ api.pc = "loop" => Len(api.log) = api.k - 1
          /\ \A k \in 1..Len(api.log) : Carries(k)
    /\ TmOk =>
          LET n == Len(api.dates)
          IN  /\ Len(api.log) = n
              /\ \A k \in 1..n : api.log[k].status = 200
              /\ n = 0 => last.val.cls = "none"
              /\ n > 0 =>
                    /\ last.val.cls = "TimeMachine"
                    /\ last.val.data.data = Merged("data", n)
                    /\ last.val.data.dates_str = Merged("dates_str", n)
                    /\ last.val.data.dates_dt = Merged("dates_dt", n)
                    /\ Len(last.val.data.data) = SumLen(n)

\* two days asked for latest first: the Archive begins with the later day
C14_Witness ==
    /\ TmOk /\ Len(api.dates) = 2
    /\ ArgDay(api.dates[1]) > ArgDay(api.dates[2])
    /\ Len(last.val.data.data) = 2 * MaxHours
    /\ last.val.data.dates_dt[1].t > last.val.data.dates_dt[2 * MaxHours].t

\* C15: a request that comes back with another status than 200 is the last
\* one of the call: the call ends in InvalidRequestError and returns no
\* TimeMachine, the request is not made again and none is made for a later
\* day.
C15_Abort ==
    \A j \in 1..Len(api.log) :
       api.log[j].status # 200 =>
          /\ j = Len(api.log)
          /\ api.pc = "idle"
          /\ last.kind = "raise" /\ last.err = "InvalidRequestError"
          /\ last.val = 0
          /\ last.op = "get_time_machine" => j = api.k /\ Carries(j)

\* the request for the second of five days fails, after the first was
\* fetched
C15_Witness ==
    /\ last.op = "get_time_machine" /\ last.err = "InvalidRequestError"
    /\ Len(api.dates) = 5 /\ Len(api.log) = 2
    /\ api.log[1].status = 200 /\ api.log[2].status = 500
    /\ api.tm.cls = "TimeMachine" /\ PyLen(api.tm.data) > 0

LocationOk ==
    \/ Given(api.args.place_id) /\ ~Given(api.args.lat) /\ ~Given(api.args.lon)
    \/ ~Given(api.args.place_id) /\ Given(api.args.lat) /\ Given(api.args.lon)

DateSpecOk ==
    \/ Given(api.args.date) /\ ~Given(api.args.date_from) /\ ~Given(api.args.date_to)
    \/ ~Given(api.args.date) /\ Given(api.args.date_from) /\ Given(api.args.date_to)

\* C16: of the eight ways date, date_from and date_to can be given or left
\* out, _get_tm_dates takes date alone and date_from with date_to; the six
\* others fail with InvalidDateSpecification, and so does get_time_machine
\* with them once the location is in order, before any request.
C16_DateSpec ==
    InTm =>
       /\ (GetTmDates(api.args.date, api.args.date_from, api.args.date_to)
              = Raise({"InvalidDateSpecification"})) <=> ~DateSpecOk
       /\ (LocationOk /\ ~DateSpecOk) =>
              /\ last.kind = "raise" /\ last.err = "InvalidDateSpecification"
              /\ api.log = <<>>
       /\ DateSpecOk => last.err # "InvalidDateSpecification"

\* a date given together with the end of a range
C16_Witness ==
    /\ last.op = "get_time_machine" /\ last.err = "InvalidDateSpecification"
    /\ Given(api.args.date) /\ ~Given(api.args.date_from) /\ Given(api.args.date_to)
    /\ api.args.date.j = "str" /\ StrptimeOk(api.args.date.v, F2)

\* the ends of a range are given and are dates, datetimes or strings in F2
RangeGiven ==
    /\ InTm /\ LocationOk
    /\ ~Given(api.args.date)
    /\ \A x \in {api.args.date_from, api.args.date_to} :
          \/ x.j = "dt"
          \/ x.j = "str" /\ StrptimeOk(x.v, F2)

\* C17: a range whose date_to is, as a calendar day, not later than its
\* date_from fails with InvalidDateRange before any request; the time of day
\* of a datetime plays no part.
C17_Range ==
    RangeGiven =>
       IF ArgDay(api.args.date_to) <= ArgDay(api.args.date_from)
       THEN last.kind = "raise" /\ last.err = "InvalidDateRange" /\ api.log = <<>>
       ELSE last.err # "InvalidDateRange"

\* from 2021-10-31 to 23:59 of that day
C17_Witness ==
    /\ RangeGiven
    /\ api.args.date_from = JStr(WireF2(1))
    /\ api.args.date_to = JDt(Naive(LateOnDay1))
    /\ last.err = "InvalidDateRange"

\* C18: a range that is taken gives the days from date_from to date_to, both
\* included, each once and in ascending order.
C18_Days ==
    (RangeGiven /\ ArgDay(api.args.date_from) < ArgDay(api.args.date_to)) =>
       LET f == ArgDay(api.args.date_from)
           t == ArgDay(api.args.date_to)
       IN  /\ Len(api.dates) = t - f + 1
           /\ \A i \in 1..Len(api.dates) : api.dates[i] = JDt(Date(f + i - 1))
           /\ api.dates[Len(api.dates)] = JDt(Date(t))

\* 2021-10-30 to 2021-11-03: five days, five requests
C18_Witness ==
    /\ TmOk /\ RangeGiven
    /\ ArgDay(api.args.date_from) = 0 /\ ArgDay(api.args.date_to) = 4
    /\ Len(api.dates) = 5 /\ Len(api.log) = 5
    /\ api.log[5].pars.date = JStr(WireF2(4))

\* the Archive of the response to request k, built on its own
ArchiveOf(k) == TimeMachine(api.log[k].data.v, api.tz, api.dates[k])

\* a statistics Timeseries of the days of the first n dates, in their order
StatisticsOf(st, n) ==
    /\ st.tz = "UTC" /\ st.data_type = "statistics"
    /\ Len(st.data) = n /\ Len(st.dates_str) = n /\ Len(st.dates_dt) = n
    /\ \A k \in 1..n :
          /\ st.dates_str[k] = WireF2(ArgDay(api.dates[k]))
          /\ Wall(st.dates_dt[k]) \div Day = ArgDay(api.dates[k])

\* C24: the statistics of an Archive are keyed by the caller's day under the
\* timezone tag 'UTC', whatever the display timezone: the Archive of one day
\* has one statistics entry whose string key is that day in the form
\* YYYY-MM-DD, be the day given as a string, a date or a datetime, and the
\* Archive an N-day get_time_machine returns has N of them in request order.
C24_Statistics ==
    /\ InTm =>
          /\ \A k \in 1..Len(api.log) :
                (api.log[k].status = 200 /\ ArchiveOf(k).kind = "ok") =>
                    LET st == ArchiveOf(k).val.statistics
                    IN  /\ st.tz = "UTC" /\ Len(st.data) = 1
                        /\ st.dates_str = <<WireF2(ArgDay(api.dates[k]))>>
          /\ (api.pc = "loop" /\ api.tm.cls = "TimeMachine") =>
                StatisticsOf(api.tm.statistics, api.k - 1)
    /\ (TmOk /\ Len(api.dates) > 0) =>
          /\ StatisticsOf(last.val.statistics, Len(api.dates))
          /\ last.val.timezone = api.tz

\* two days asked for in Europe/Prague, the later first and as a datetime
\* late on its day, the earlier as a string
C24_Witness ==
    /\ TmOk /\ api.tz = "Europe/Prague"
    /\ api.dates = <<JDt(Naive(LateOnDay1)), JStr(WireF2(0))>>
    /\ last.val.statistics.tz = "UTC"
    /\ last.val.statistics.dates_str = <<WireF2(1), WireF2(0)>>
    /\ last.val.data.tz = "Europe/Prague"

\* a call of the interface has ended in an error of the caller's input
InputError ==
    /\ last.op \in {"get_time_machine", "get_point_forecast"}
    /\ last.kind = "raise"
    /\ last.err \in {"InvalidArgumentError", "InvalidDateSpecification",
                     "InvalidDateRange", "InvalidDateFormat"}

\* C27: a call that fails with InvalidArgumentError, InvalidDateSpecification,
\* InvalidDateRange or InvalidDateFormat has made no request; a list of dates
\* with an invalid entry at any position is rejected before the first
\* request.
C27_Claimed == InputError => api.log = <<>>

\* C27, as far as the code goes: no request precedes InvalidArgumentError,
\* InvalidDateSpecification, InvalidDateRange, nor the InvalidDateFormat of a
\* single date or of an end of a range.  The entries of a list are looked at
\* one by one in the loop, so the InvalidDateFormat of entry k comes after
\* the requests for the k - 1 entries before it.
C27_Requests ==
    InputError =>
        /\ last.err # "InvalidDateFormat" => api.log = <<>>
        /\ last.err = "InvalidDateFormat" =>
              /\ Len(api.log) = api.k - 1
              /\ api.args.date.j # "list" => api.log = <<>>
              /\ api.log # <<>> =>
                    /\ DatePar(api.dates[api.k]).kind = "raise"
                    /\ \A h \in 1..(api.k - 1) : DatePar(api.dates[h]).kind = "ok"

\* a list whose second entry is no date: the first day has been requested
C27_Witness ==
    /\ InputError /\ last.err = "InvalidDateFormat"
    /\ api.args.date.j = "list" /\ Len(api.args.date.v) = 2
    /\ Len(api.log) = 1 /\ api.log[1].status = 200

\* a call of the interface has been made
Called == DOMAIN api.args # {}

\* C19: a location is place_id alone or lat with lon and no place_id; the
\* six other ways fail with InvalidArgumentError before any request.  The
\* parameters of every request hold place_id and neither lat nor lon, or lat
\* and lon and no place_id, as they were given.
C19_Location ==
    Called =>
       /\ ~LocationOk =>
             last.kind = "raise" /\ last.err = "InvalidArgumentError" /\ api.log = <<>>
       /\ LocationOk =>
             /\ last.err # "InvalidArgumentError"
             /\ \A k \in 1..Len(api.log) :
                  LET pars == api.log[k].pars
                  IN  IF Given(api.args.place_id)
                      THEN /\ DOMAIN pars \cap {"place_id", "lat", "lon"} = {"place_id"}
                           /\ pars.place_id = api.args.place_id
                      ELSE /\ DOMAIN pars \cap {"place_id", "lat", "lon"} = {"lat", "lon"}
                           /\ pars.lat = api.args.lat /\ pars.lon = api.args.lon

\* a point forecast asked for by coordinates, and fetched
C19_Witness ==
    /\ last.op = "get_point_forecast" /\ last.kind = "ok"
    /\ ~Given(api.args.place_id)
    /\ Len(api.log) = 1 /\ "lat" \in DOMAIN api.log[1].pars
    /\ last.val.cls = "Forecast"

-----------------------------------------------------------------------------
Init ==
    /\ ts = NoObject
    /\ last = NoCall
    /\ alerts = NoAlerts
    /\ forecast = NoForecast
    /\ api = NoApi

Next ==
    \/ Construct
    \/ AppendCall
    \/ LenCall
    \/ GetItemInt
    \/ GetItemStr
    \/ GetItemDatetime
    \/ GetItemOther
    \/ Return

Spec == Init /\ [][Next]_vars

SpecAlerts == Init /\ [][NextAlerts]_vars

SpecForecast == Init /\ [][NextForecast]_vars

SpecApi == Init /\ [][NextApi]_vars
====
